---------------------------- MODULE Spec2Model ----------------------------
(***************************************************************************)
(* A model of the tfq0seo crawl engine (tfq0seo/core/crawler.py), the      *)
(* analysis orchestrator (tfq0seo/core/app.py), the cache                  *)
(* (src/utils/cache_manager.py) and the issue aggregator                   *)
(* (tfq0seo/core/report_generator.py).                                     *)
(*                                                                         *)
(* Each component has its own specification over the shared variables:     *)
(*   Spec        the crawler: crawl_site, its batch of fetch_page tasks    *)
(*   CacheSpec   the cache: threads calling configure, set and get         *)
(*   AnalysisSpec the orchestrator: analyze_page on the crawled pages and  *)
(*               generate_site_report                                      *)
(*   ReportSpec  the issue aggregator: _extract_all_issues                 *)
(***************************************************************************)
EXTENDS Integers, Sequences, FiniteSets, TLC

(***************************************************************************)
(* URLs.  A URL string is kept as its scheme, its network location and the *)
(* characters that follow the network location, so that urlparse,          *)
(* str.lower, rstrip('/') and urlunparse work on characters.               *)
(***************************************************************************)

\* Python's None.
NoneVal == "None"

\* The empty string.
EmptyStr == <<>>

\* str.lower() on one character of the alphabet used by the URLs below.
LowerChar(c) ==
    CASE c = "A" -> "a"
      [] c = "B" -> "b"
      [] c = "P" -> "p"
      [] OTHER -> c

\* str.lower() on a scheme or a network location.
LowerName(s) ==
    CASE s = "HTTP" -> "http"
      [] s = "H" -> "h"
      [] OTHER -> s

\* str.lower() on a string of characters.
LowerStr(s) == [i \in 1..Len(s) |-> LowerChar(s[i])]

\* str.find(c, start): the first index of c in s at or after start, 0 when
\* there is none.
RECURSIVE FindFrom(_, _, _)
FindFrom(s, c, start) ==
    IF start > Len(s) THEN 0
    ELSE IF s[start] = c THEN start ELSE FindFrom(s, c, start + 1)

\* str.find(c): the first index of c in s, 0 when c does not occur.
Find(s, c) == FindFrom(s, c, 1)

\* The last index of c in s at or before last, 0 when there is none.
RECURSIVE RFindFrom(_, _, _)
RFindFrom(s, c, last) ==
    IF last = 0 THEN 0
    ELSE IF s[last] = c THEN last ELSE RFindFrom(s, c, last - 1)

\* str.rfind(c): the last index of c in s, 0 when c does not occur.
RFind(s, c) == RFindFrom(s, c, Len(s))

\* s[:i-1] and s[i+1:] around the separator at index i (i > 0).
Before(s, i) == SubSeq(s, 1, i - 1)
After(s, i) == SubSeq(s, i + 1, Len(s))

\* str.rstrip('/'): every trailing slash is removed.
RECURSIVE RStripSlash(_)
RStripSlash(s) ==
    IF s # EmptyStr /\ s[Len(s)] = "/" THEN RStripSlash(Before(s, Len(s))) ELSE s

\* str.endswith(suffix)
EndsWith(s, suffix) ==
    /\ Len(s) >= Len(suffix)
    /\ SubSeq(s, Len(s) - Len(suffix) + 1, Len(s)) = suffix

\* str.startswith(prefix)
StartsWith(s, prefix) ==
    /\ Len(s) >= Len(prefix)
    /\ SubSeq(s, 1, Len(prefix)) = prefix

\* urllib.parse.urlparse: fragment after the first '#', query after the
\* first '?', params after the first ';' of the last path segment.
urlparse(url) ==
    LET t == url.tail
        h == Find(t, "#")
        noFrag == IF h = 0 THEN t ELSE Before(t, h)
        fragment == IF h = 0 THEN EmptyStr ELSE After(t, h)
        q == Find(noFrag, "?")
        noQuery == IF q = 0 THEN noFrag ELSE Before(noFrag, q)
        query == IF q = 0 THEN EmptyStr ELSE After(noFrag, q)
        slash == RFind(noQuery, "/")
        semi == IF slash > 0 THEN FindFrom(noQuery, ";", slash)
                             ELSE Find(noQuery, ";")
        path == IF semi = 0 THEN noQuery ELSE Before(noQuery, semi)
        params == IF semi = 0 THEN EmptyStr ELSE After(noQuery, semi)
    IN  [scheme |-> url.scheme, netloc |-> url.netloc, path |-> path,
         params |-> params, query |-> query, fragment |-> fragment]

\* urllib.parse.urlunparse: empty params, query and fragment are left out;
\* a path that follows a network location starts with a slash.
urlunparse(p) ==
    LET path == IF p.netloc # "" /\ p.path # EmptyStr /\ p.path[1] # "/"
                THEN <<"/">> \o p.path ELSE p.path
    IN  [scheme |-> p.scheme, netloc |-> p.netloc,
         tail |-> path
                  \o (IF p.params # EmptyStr THEN <<";">> \o p.params ELSE EmptyStr)
                  \o (IF p.query # EmptyStr THEN <<"?">> \o p.query ELSE EmptyStr)
                  \o (IF p.fragment # EmptyStr THEN <<"#">> \o p.fragment ELSE EmptyStr)]

\* url.lower()
LowerUrl(url) ==
    [scheme |-> LowerName(url.scheme), netloc |-> LowerName(url.netloc),
     tail |-> LowerStr(url.tail)]

\* Crawler.normalize_url
normalize_url(url) ==
    LET parsed == urlparse(LowerUrl(url))
        stripped == RStripSlash(parsed.path)
    IN  urlunparse([scheme |-> parsed.scheme, netloc |-> parsed.netloc,
                    path |-> IF stripped # EmptyStr THEN stripped ELSE <<"/">>,
                    params |-> parsed.params, query |-> parsed.query,
                    fragment |-> EmptyStr])

\* A URL of the crawled host: http://h followed by the given characters.
HostUrl(tail) == [scheme |-> "http", netloc |-> "h", tail |-> tail]

\* The start URL given to crawl_site: "http://h/".
start_url == HostUrl(<<"/">>)

\* The URLs that hrefs of the crawled pages resolve to (after urljoin).
PageUrls ==
    { start_url,
      HostUrl(<<"/", "b">>),                  \* http://h/b
      HostUrl(<<"/", "b", "/">>),             \* http://h/b/
      HostUrl(<<"/", "b", "#", "f">>),        \* http://h/b#f
      HostUrl(<<"/", "B">>),                  \* http://h/B
      HostUrl(<<"/", "c">>),                  \* http://h/c
      HostUrl(<<"/", "p", "/", "a">>) }       \* http://h/p/a, under /p/

\* Hrefs that is_valid_url rejects: another host, a script, a mailto link.
OtherUrls ==
    { [scheme |-> "http", netloc |-> "x", tail |-> <<"/">>],
      HostUrl(<<"/", "a", ".", "j", "s">>),
      [scheme |-> "mailto", netloc |-> "", tail |-> <<"a">>] }

Urls == PageUrls \cup OtherUrls

\* skip_extensions of is_valid_url
skip_extensions ==
    { <<".", "j", "p", "g">>, <<".", "j", "p", "e", "g">>, <<".", "p", "n", "g">>,
      <<".", "g", "i", "f">>, <<".", "p", "d", "f">>, <<".", "z", "i", "p">>,
      <<".", "e", "x", "e">>, <<".", "m", "p", "3">>, <<".", "m", "p", "4">>,
      <<".", "a", "v", "i">>, <<".", "c", "s", "s">>, <<".", "j", "s">> }

\* Crawler.is_valid_url with the default configuration (allowed_domains and
\* excluded_patterns empty): an http(s) URL of the base URL's host whose
\* path has none of the skipped extensions.
is_valid_url(url, base_domain) ==
    LET parsed == urlparse(url)
        path == LowerStr(parsed.path)
    IN  /\ parsed.scheme \in {"http", "https"}
        /\ parsed.netloc = urlparse(base_domain).netloc
        /\ \A ext \in skip_extensions : ~EndsWith(path, ext)

\* An href without scheme and network location: a relative reference.
RelativeHref(tail) == [scheme |-> "", netloc |-> "", tail |-> tail]

\* urllib.parse.urljoin for the hrefs of the pages: an href with a scheme
\* is absolute, one that starts with a slash replaces the path of the base,
\* any other replaces the last segment of the base's path.
urljoin(base, href) ==
    LET path == urlparse(base).path
        slash == RFind(path, "/")
    IN  IF href.scheme # "" THEN href
        ELSE IF href.tail # EmptyStr /\ href.tail[1] = "/"
             THEN [base EXCEPT !.tail = href.tail]
        ELSE [base EXCEPT !.tail = (IF slash = 0 THEN <<"/">>
                                    ELSE SubSeq(path, 1, slash)) \o href.tail]

\* Crawler.extract_links: the hrefs of the page, joined to base_url, that
\* are valid for base_url, without duplicates (list(set(links)) has no
\* defined order).
extract_links(soup, base_url) ==
    {absolute_url \in {urljoin(base_url, href) : href \in soup} :
        is_valid_url(absolute_url, base_url)}

\* The robots.txt URL check_robots_txt builds for a URL.
robots_url_of(url) ==
    [scheme |-> url.scheme, netloc |-> url.netloc,
     tail |-> <<"/", "r", "o", "b", "o", "t", "s", ".", "t", "x", "t">>]

\* The robots.txt the host serves: "User-agent: *" / "Disallow: /p/".
robots_txt == [disallow |-> {<<"/", "p", "/">>}]

\* RobotFileParser.can_fetch: a URL is refused when its path starts with a
\* disallowed prefix.
can_fetch(rp, url) ==
    \A prefix \in rp.disallow : ~StartsWith(urlparse(url).path, prefix)


(***************************************************************************)
(* The crawler: Crawler.crawl_site and the fetch_page coroutines of its    *)
(* current batch.                                                          *)
(***************************************************************************)

\* Bounds of the configurations and of the pages the model explores.
MaxPagesBound == 3
MaxDepthBound == 2
MaxConcurrentBound == 2

VARIABLES
    max_pages,        \* crawl_site's max_pages (max_pages or self.max_pages)
    max_depth,        \* self.max_depth
    max_concurrent,   \* self.max_concurrent
    respect_robots,   \* self.respect_robots
    visited_urls,     \* self.visited_urls: set of normalized URLs
    failed_urls,      \* self.failed_urls
    results,          \* self.results: list of page dicts
    robots_cache,     \* self.robots_cache: robots URL -> parsed robots.txt
    to_visit,         \* crawl_site's frontier list
    depth_map,        \* crawl_site's depth_map: URL -> depth
    batch,            \* the URLs of the current batch
    tasks,            \* the batch's fetch_with_semaphore coroutines
    semaphore,        \* free permits of asyncio.Semaphore(max_concurrent)
    cpc,              \* where crawl_site is: loop, gather, merge, done
    idx,              \* position of the merge loop in zip(batch, results)
    page_gets,        \* how often fetch_page issued session.get(url), per
                      \* normalized form of url
    session,          \* self.session: open, or closed by __aexit__
    robots_gets       \* how often check_robots_txt issued session.get, per
                      \* robots.txt URL

crawler_vars ==
    << max_pages, max_depth, max_concurrent, respect_robots, visited_urls,
       failed_urls, results, robots_cache, to_visit, depth_map, batch, tasks,
       semaphore, cpc, idx, page_gets, session, robots_gets >>

VARIABLES
    config,           \* CacheManager's enabled, expiration, max_entries, max_memory
    memory_cache,     \* self.memory_cache: OrderedDict, least recently used first
    cache_dir,        \* the files of self.cache_dir: cache key -> file content
    stats,            \* self.stats: CacheStats
    lock,             \* CacheManager._lock: the thread holding it, or "free"
    threads,          \* per thread: where its CacheManager call is
    now,              \* datetime.now()
    calls,            \* set() and get() calls issued so far
    set_keys,         \* the key_data values set() was called with
    gets_done         \* get() calls on an enabled cache that have returned

cache_vars ==
    << config, memory_cache, cache_dir, stats, lock, threads, now, calls,
       set_keys, gets_done >>

VARIABLES
    app_results,      \* SEOAnalyzer.results: the analyses of the pages
    broken_links,     \* SEOAnalyzer.broken_links
    processed,        \* SEOAnalyzer.crawl_site's processed
    site_report,      \* what generate_site_report returned
    raised,           \* per analysis: the analyzer that raised in it
    stream            \* SEOAnalyzer.crawl_site's async iterator: open, ended

analysis_vars ==
    << app_results, broken_links, processed, site_report, raised, stream >>

VARIABLES
    analysis_results, \* generate_action_plan's analysis_results
    all_issues,       \* generate_action_plan's all_issues
    rpc,              \* where generate_action_plan is: start, done
    enhanced_issues,  \* generate_action_plan's enhanced_issues
    action_groups,    \* generate_action_plan's action_groups
    gpc               \* where _group_by_effort_impact is: start, done

report_vars ==
    << analysis_results, all_issues, rpc, enhanced_issues, action_groups, gpc >>

VARIABLES
    norm_url,         \* the URL given to Crawler.normalize_url
    norm_out,         \* what the successive normalize_url calls returned
    wrapper,          \* a call of a function wrapped by handle_analysis_error:
                      \* its kwargs, how often func was invoked, what it
                      \* raised, what the wrapper returned
    fetcher,          \* an AsyncRequestManager: context['max_retries'],
                      \* whether self.session is set, the free permits of
                      \* self.semaphore, and its fetch() calls
    manager,          \* the CacheManager singleton of
                      \* src/tfq0seo/utils/cache_manager.py: its attributes,
                      \* its files, and what its callers did
    scoring           \* one pass of the loop of generate_action_plan: the
                      \* issue dict, the page data, and where the pass is

util_vars == << norm_url, norm_out, wrapper, fetcher, manager, scoring >>

not_crawler_vars == << cache_vars, analysis_vars, report_vars, util_vars >>

not_cache_vars == << crawler_vars, analysis_vars, report_vars, util_vars >>

vars == << crawler_vars, cache_vars, analysis_vars, report_vars, util_vars >>

\* None where a URL is expected.
NoneUrl == [scheme |-> NoneVal, netloc |-> NoneVal, tail |-> EmptyStr]

\* A dict with no entry; a coroutine that returned None holds NoResult.
NoResult ==
    [keys |-> {}, url |-> NoneUrl, status_code |-> 0, error |-> NoneVal,
     soup |-> {}, redirected_from |-> NoneUrl]

\* The dict fetch_page builds from a response (lines 181-192); soup stands
\* for the hrefs of the parsed page.
fetch_page_result(url, final, status, soup) ==
    [keys |-> {"url", "status_code", "soup", "redirected_from"},
     url |-> final, status_code |-> status, error |-> NoneVal, soup |-> soup,
     redirected_from |-> IF final # url THEN url ELSE NoneUrl]

\* An except branch that returns None in place of the error dict.
fetch_page_error_dropped(url, message) == NoResult

\* The dict fetch_page returns from its except branches (lines 196-201).
fetch_page_error(url, message) ==
    [keys |-> {"url", "error", "status_code"},
     url |-> url, status_code |-> 0, error |-> message, soup |-> {},
     redirected_from |-> NoneUrl]

\* fetch_page without its visited test.
fetch_page_seen_never(normalized_url) == FALSE

\* fetch_page line 146: normalized_url in self.visited_urls
fetch_page_seen(normalized_url) == normalized_url \in visited_urls

\* A batch size that ignores the pages still allowed by max_pages.
batch_size_unlimited == IF max_concurrent <= Len(to_visit) THEN max_concurrent ELSE Len(to_visit)

\* crawl_site line 229
Min(a, b) == IF a <= b THEN a ELSE b
batch_size == Min(max_concurrent, Min(Len(to_visit), max_pages - Len(results)))

\* crawl_site line 227: the loop condition
loop_condition == to_visit # <<>> /\ Len(results) < max_pages

\* The depth test with <= in place of <.
below_max_depth_inclusive(current_depth) == current_depth <= max_depth

\* crawl_site line 250
below_max_depth(current_depth) == current_depth < max_depth

\* dict.get(key, default) on a map
MapGet(map, key, default) == IF key \in DOMAIN map THEN map[key] ELSE default

\* map[key] = value
MapPut(map, key, value) ==
    [k \in DOMAIN map \cup {key} |-> IF k = key THEN value ELSE map[k]]

\* The elements of a list.
Range(seq) == {seq[i] : i \in DOMAIN seq}

\* The orders in which a set can be iterated.
Orderings(S) ==
    {seq \in [1..Cardinality(S) -> S] :
        \A i, j \in 1..Cardinality(S) : i # j => seq[i] # seq[j]}

\* What a GET of a page may answer with: the status, and the hrefs of the
\* page.  The link sets cover the pages of a site A -> B, A -> C, C -> A,
\* links that differ by trailing slash, fragment and letter case, a link
\* under the disallowed /p/, and hrefs that is_valid_url rejects.
StatusCodes == {200, 500}
LinkSets ==
    { {},
      {HostUrl(<<"/", "b">>), HostUrl(<<"/", "c">>)},
      {start_url, RelativeHref(<<"b">>)},
      {HostUrl(<<"/", "b", "/">>), HostUrl(<<"/", "b", "#", "f">>)},
      {HostUrl(<<"/", "B">>), HostUrl(<<"/", "p", "/", "a">>)},
      {HostUrl(<<"/", "c">>)} \cup OtherUrls }

\* response.url: the requested URL; the host may also redirect http://h/c
\* to the start page or to http://h/p/a.
FinalUrls(url) ==
    IF url = HostUrl(<<"/", "c">>)
    THEN {url, start_url, HostUrl(<<"/", "p", "/", "a">>)}
    ELSE {url}

\* crawl_site lines 227-235: take the next batch off the frontier and start
\* gathering its fetches.
Dispatch ==
    /\ cpc = "loop"
    /\ loop_condition
    /\ batch' = SubSeq(to_visit, 1, batch_size)
    /\ to_visit' = SubSeq(to_visit, batch_size + 1, Len(to_visit))
    /\ tasks' = [i \in 1..batch_size |-> [pc |-> "created", result |-> NoResult]]
    /\ cpc' = "gather"
    /\ UNCHANGED not_crawler_vars
    /\ UNCHANGED << max_pages, max_depth, max_concurrent, respect_robots,
                    visited_urls, failed_urls, results, robots_cache, depth_map,
                    semaphore, idx, page_gets,
                    session, robots_gets >>

\* crawl_site line 258: the loop condition is false, return self.results.
Return ==
    /\ cpc = "loop"
    /\ ~loop_condition
    /\ cpc' = "done"
    /\ UNCHANGED not_crawler_vars
    /\ UNCHANGED << max_pages, max_depth, max_concurrent, respect_robots,
                    visited_urls, failed_urls, results, robots_cache, to_visit,
                    depth_map, batch, tasks, semaphore, idx, page_gets,
                    session, robots_gets >>

\* check_robots_txt up to its first await (lines 118-126): "allowed",
\* "refused", or "ask" when robots.txt has to be requested.
robots_decision(url) ==
    IF ~respect_robots THEN "allowed"
    ELSE IF robots_url_of(url) \in DOMAIN robots_cache
         THEN IF can_fetch(robots_cache[robots_url_of(url)], url)
              THEN "allowed" ELSE "refused"
         ELSE "ask"

\* fetch_with_semaphore / fetch_page of batch[i] up to its first await
\* (lines 224-225, 144-157): the visited test, the robots.txt cache lookup,
\* and the request that is sent.
FetchStart(i) ==
    /\ cpc = "gather"
    /\ session = "open"
    /\ i \in DOMAIN tasks
    /\ tasks[i].pc = "created"
    /\ semaphore > 0
    /\ LET url == batch[i]
           normalized_url == normalize_url(url)
           seen == fetch_page_seen(normalized_url)
           robots == robots_decision(url)
           returns == seen \/ robots = "refused"
       IN  /\ visited_urls' = IF seen THEN visited_urls
                              ELSE visited_urls \cup {normalized_url}
           /\ tasks' = [tasks EXCEPT ![i] =
                  IF returns THEN [pc |-> "done", result |-> NoResult]
                  ELSE [pc |-> IF robots = "ask" THEN "robots" ELSE "get",
                        result |-> NoResult]]
           /\ page_gets' = IF ~returns /\ robots = "allowed"
                           THEN [page_gets EXCEPT ![normalized_url] = @ + 1]
                           ELSE page_gets
           /\ robots_gets' = IF ~returns /\ robots = "ask"
                             THEN [robots_gets EXCEPT ![robots_url_of(url)] = @ + 1]
                             ELSE robots_gets
           /\ semaphore' = IF returns THEN semaphore ELSE semaphore - 1
    /\ UNCHANGED not_crawler_vars
    /\ UNCHANGED << max_pages, max_depth, max_concurrent, respect_robots,
                    failed_urls, results, robots_cache, to_visit, depth_map,
                    batch, cpc, idx,
                    session >>

\* fetch_with_semaphore / fetch_page of batch[i] on a closed session (lines
\* 224-225, 144-201): after the visited test and the robots.txt cache lookup,
\* session.get raises at once; check_robots_txt's bare except allows the
\* URL (lines 137-140) and fetch_page's except returns the error dict (lines
\* 199-201).
FetchOnClosedSession(i) ==
    /\ cpc = "gather"
    /\ session = "closed"
    /\ i \in DOMAIN tasks
    /\ tasks[i].pc = "created"
    /\ semaphore > 0
    /\ LET url == batch[i]
           normalized_url == normalize_url(url)
           seen == fetch_page_seen(normalized_url)
           returns == seen \/ robots_decision(url) = "refused"
       IN  /\ visited_urls' = IF seen THEN visited_urls
                              ELSE visited_urls \cup {normalized_url}
           /\ failed_urls' = IF returns THEN failed_urls
                             ELSE failed_urls \cup {normalized_url}
           /\ tasks' = [tasks EXCEPT ![i] =
                  [pc |-> "done",
                   result |-> IF returns THEN NoResult
                              ELSE fetch_page_error(url, "Session is closed")]]
    /\ UNCHANGED not_crawler_vars
    /\ UNCHANGED << max_pages, max_depth, max_concurrent, respect_robots,
                    results, robots_cache, to_visit, depth_map, batch,
                    semaphore, cpc, idx, page_gets, session, robots_gets >>

\* check_robots_txt after its await (lines 130-140) and fetch_page lines
\* 152-157: the answer to the robots.txt request arrives.
RobotsResponse(i) ==
    /\ cpc = "gather"
    /\ i \in DOMAIN tasks
    /\ tasks[i].pc = "robots"
    /\ \E answer \in IF session = "open" THEN {"200", "404", "error"}
                      ELSE {"error"} :
         LET url == batch[i]
             allowed == IF answer = "200" THEN can_fetch(robots_txt, url) ELSE TRUE
         IN  /\ robots_cache' = IF answer = "200"
                                THEN MapPut(robots_cache, robots_url_of(url), robots_txt)
                                ELSE robots_cache
             /\ tasks' = [tasks EXCEPT ![i] =
                    IF allowed THEN [pc |-> "get", result |-> NoResult]
                    ELSE [pc |-> "done", result |-> NoResult]]
             /\ page_gets' = IF allowed
                             THEN [page_gets EXCEPT ![normalize_url(url)] = @ + 1]
                             ELSE page_gets
             /\ semaphore' = IF allowed THEN semaphore ELSE semaphore + 1
    /\ UNCHANGED not_crawler_vars
    /\ UNCHANGED << max_pages, max_depth, max_concurrent, respect_robots,
                    visited_urls, failed_urls, results, to_visit, depth_map,
                    batch, cpc, idx,
                    session, robots_gets >>

\* fetch_page lines 157-194: the response to session.get(url) arrives.
GetResponse(i) ==
    /\ cpc = "gather"
    /\ session = "open"
    /\ i \in DOMAIN tasks
    /\ tasks[i].pc = "get"
    /\ \E status \in StatusCodes, soup \in LinkSets, final \in FinalUrls(batch[i]) :
         tasks' = [tasks EXCEPT ![i] =
             [pc |-> "done",
              result |-> fetch_page_result(batch[i], final, status, soup)]]
    /\ semaphore' = semaphore + 1
    /\ UNCHANGED not_crawler_vars
    /\ UNCHANGED << max_pages, max_depth, max_concurrent, respect_robots,
                    visited_urls, failed_urls, results, robots_cache, to_visit,
                    depth_map, batch, cpc, idx, page_gets,
                    session, robots_gets >>

\* fetch_page lines 196-201: session.get(url) times out or raises.
GetFails(i) ==
    /\ cpc = "gather"
    /\ i \in DOMAIN tasks
    /\ tasks[i].pc = "get"
    /\ \E message \in {"Timeout", "ClientError"} :
         tasks' = [tasks EXCEPT ![i] =
             [pc |-> "done", result |-> fetch_page_error(batch[i], message)]]
    /\ failed_urls' = failed_urls \cup {normalize_url(batch[i])}
    /\ semaphore' = semaphore + 1
    /\ UNCHANGED not_crawler_vars
    /\ UNCHANGED << max_pages, max_depth, max_concurrent, respect_robots,
                    visited_urls, results, robots_cache, to_visit, depth_map,
                    batch, cpc, idx, page_gets,
                    session, robots_gets >>

\* Crawler.__aexit__ (lines 62-65), run when the consumer of
\* SEOAnalyzer.crawl_site closes the generator or its task is cancelled and
\* the exception leaves 'async with Crawler(...)' (app.py line 194): the
\* session is closed; the task that runs crawl_site (app.py lines 198-200)
\* is not cancelled.  The consumer runs only while crawl_site is suspended
\* in asyncio.gather (line 235).  Requests in flight fail from then on.
CloseSession ==
    /\ session = "open"
    /\ cpc = "gather"
    /\ batch # <<>>
    /\ session' = "closed"
    /\ UNCHANGED not_crawler_vars
    /\ UNCHANGED << max_pages, max_depth, max_concurrent, respect_robots,
                    visited_urls, failed_urls, results, robots_cache, to_visit,
                    depth_map, batch, tasks, semaphore, cpc, idx, page_gets, robots_gets >>

\* A gather that returns with the first task that is done.
GatherDone_first ==
    /\ cpc = "gather"
    /\ \E i \in DOMAIN tasks : tasks[i].pc = "done"
    /\ cpc' = "merge"
    /\ idx' = 1
    /\ UNCHANGED not_crawler_vars
    /\ UNCHANGED << max_pages, max_depth, max_concurrent, respect_robots,
                    visited_urls, failed_urls, results, robots_cache, to_visit,
                    depth_map, batch, tasks, semaphore, page_gets,
                    session, robots_gets >>

\* crawl_site lines 235-237: asyncio.gather returns once every task is done;
\* the loop over zip(batch, results) has no round when the batch is empty.
GatherDone ==
    /\ cpc = "gather"
    /\ \A i \in DOMAIN tasks : tasks[i].pc = "done"
    /\ cpc' = IF batch = <<>> THEN "loop" ELSE "merge"
    /\ idx' = 1
    /\ UNCHANGED not_crawler_vars
    /\ UNCHANGED << max_pages, max_depth, max_concurrent, respect_robots,
                    visited_urls, failed_urls, results, robots_cache, to_visit,
                    depth_map, batch, tasks, semaphore, page_gets,
                    session, robots_gets >>

\* crawl_site lines 252-256: the links that pass the three membership tests.
new_links(links) ==
    {link \in links : /\ link \notin visited_urls
                      /\ link \notin Range(to_visit)
                      /\ link \notin DOMAIN depth_map}

\* crawl_site lines 237-256: one round of the loop over zip(batch, results).
MergeResult ==
    /\ cpc = "merge"
    /\ idx \in DOMAIN batch
    /\ LET url == batch[idx]
           result == tasks[idx].result
           current_depth == MapGet(depth_map, url, 0)
           extracts == /\ result # NoResult
                       /\ "soup" \in result.keys
                       /\ result.status_code = 200
                       /\ below_max_depth(current_depth)
           links == IF extracts THEN new_links(extract_links(result.soup, url))
                    ELSE {}
       IN  /\ results' = IF result = NoResult THEN results
                         ELSE Append(results, result)
           /\ \E order \in Orderings(links) :
                /\ to_visit' = to_visit \o order
                /\ depth_map' = [k \in DOMAIN depth_map \cup links |->
                                    IF k \in links THEN current_depth + 1
                                    ELSE depth_map[k]]
    /\ idx' = idx + 1
    /\ cpc' = IF idx = Len(batch) THEN "loop" ELSE "merge"
    /\ UNCHANGED not_crawler_vars
    /\ UNCHANGED << max_pages, max_depth, max_concurrent, respect_robots,
                    visited_urls, failed_urls, robots_cache, batch, tasks,
                    semaphore, page_gets,
                    session, robots_gets >>

(***************************************************************************)
(* Properties of the crawler.                                              *)
(***************************************************************************)

\* The URL that was requested for a page dict of self.results.
RequestedUrl(r) == IF r.redirected_from # NoneUrl THEN r.redirected_from ELSE r.url

\* C1: within one session the GET of a page is issued at most once per
\* normalized URL, and a fetch_page call whose URL normalizes to a visited
\* URL returns None without issuing a GET.
C1_FetchedAtMostOnce ==
    /\ [](\A n \in DOMAIN page_gets : page_gets[n] <= 1)
    /\ [][\A i \in DOMAIN tasks :
            (/\ cpc = "gather"
             /\ tasks[i].pc = "created"
             /\ tasks'[i] # tasks[i]
             /\ normalize_url(batch[i]) \in visited_urls)
            => (/\ tasks'[i] = [pc |-> "done", result |-> NoResult]
                /\ page_gets' = page_gets)]_vars

\* C1 witness: a fetch_page call returned None for a URL whose normalized
\* form had been requested once, through a different URL that is now in
\* the results.
C1_Witness ==
    \E i \in DOMAIN tasks :
        /\ tasks[i] = [pc |-> "done", result |-> NoResult]
        /\ page_gets[normalize_url(batch[i])] = 1
        /\ \E k \in DOMAIN results :
              /\ RequestedUrl(results[k]) # batch[i]
              /\ normalize_url(RequestedUrl(results[k])) = normalize_url(batch[i])

\* C2: the results never exceed max_pages, a batch is dispatched only while
\* the frontier is non-empty and the results are below max_pages, and the
\* loop exits exactly when the frontier is empty or max_pages is reached.
C2_PageLimit ==
    /\ [](Len(results) <= max_pages)
    /\ [][(cpc = "loop" /\ cpc' = "gather")
            => (to_visit # <<>> /\ Len(results) < max_pages)]_vars
    /\ [][(cpc = "loop" /\ cpc' = "done")
            => (to_visit = <<>> \/ Len(results) = max_pages)]_vars
    /\ [][(cpc = "loop" /\ (to_visit = <<>> \/ Len(results) = max_pages))
            => cpc' = "done"]_vars

\* C2 witness: the crawl returned because max_pages results were collected
\* while the frontier still held URLs.
C2_Witness ==
    /\ cpc = "done"
    /\ to_visit # <<>>
    /\ Len(results) = max_pages
    /\ max_pages > 1

\* C4: with robots.txt checking enabled, a URL that robots.txt disallows is
\* never fetched and is neither in the visited set nor in the failed set.
C4_DisallowedNeverVisited ==
    respect_robots =>
        \A u \in PageUrls :
            ~can_fetch(robots_txt, u) =>
                /\ page_gets[normalize_url(u)] = 0
                /\ normalize_url(u) \notin visited_urls
                /\ normalize_url(u) \notin failed_urls

\* Whether r is the terminal result of a failed fetch of normalized URL n.
IsErrorResultFor(r, n) ==
    /\ "error" \in r.keys
    /\ r.error # NoneVal
    /\ r.status_code = 0
    /\ normalize_url(r.url) = n

\* C5: a fetch that times out or raises becomes a result with error set and
\* status_code 0 that is appended to the results, and the crawl goes on: it
\* returns only with the frontier processed or max_pages reached.
C5_FetchErrorsAreResults ==
    /\ \A n \in failed_urls :
          \/ \E k \in DOMAIN results : IsErrorResultFor(results[k], n)
          \/ /\ cpc \in {"gather", "merge"}
             /\ \E i \in DOMAIN tasks :
                   /\ cpc = "merge" => i >= idx
                   /\ tasks[i].pc = "done"
                   /\ IsErrorResultFor(tasks[i].result, n)
    /\ (cpc = "done" /\ Len(results) < max_pages) =>
          \A u \in DOMAIN depth_map : normalize_url(u) \in visited_urls

\* C5 witness: the crawl returned with an error result that is followed by
\* the result of a page fetched successfully.
C5_Witness ==
    /\ cpc = "done"
    /\ \E k \in DOMAIN results :
          /\ k < Len(results)
          /\ IsErrorResultFor(results[k], normalize_url(results[k].url))
          /\ normalize_url(results[k].url) \in failed_urls
          /\ "error" \notin results[k + 1].keys

\* C9: the seed has depth 0, a URL enqueued from a page of depth d gets depth
\* d + 1, links are enqueued only from pages with d < max_depth, and no page
\* in the results is deeper than max_depth.
C9_DepthBound ==
    /\ [](/\ depth_map[start_url] = 0
          /\ \A u \in DOMAIN depth_map : depth_map[u] <= max_depth
          /\ \A k \in DOMAIN results :
                /\ RequestedUrl(results[k]) \in DOMAIN depth_map
                /\ depth_map[RequestedUrl(results[k])] <= max_depth)
    /\ [][\A u \in DOMAIN depth_map' :
            IF u \in DOMAIN depth_map
            THEN depth_map'[u] = depth_map[u]
            ELSE /\ cpc = "merge"
                 /\ depth_map[batch[idx]] < max_depth
                 /\ depth_map'[u] = depth_map[batch[idx]] + 1
                 /\ u \in Range(to_visit') /\ u \notin Range(to_visit)]_vars

\* C9 witness: a page at depth max_depth >= 1 was fetched with status 200
\* and a valid link that was never enqueued.
C9_Witness ==
    /\ cpc = "done"
    /\ max_depth >= 1
    /\ \E k \in DOMAIN results :
          /\ results[k].status_code = 200
          /\ depth_map[RequestedUrl(results[k])] = max_depth
          /\ \E link \in extract_links(results[k].soup, RequestedUrl(results[k])) :
                link \notin DOMAIN depth_map

\* C10: no two entries ever appended to the frontier (the keys of depth_map:
\* the seed and every appended link) have the same normalized form.
C10_FrontierUniqueNormalized ==
    \A u, v \in DOMAIN depth_map : u # v => normalize_url(u) # normalize_url(v)


C16_NoDispatchAfterCancel ==
    /\ [][session = "closed" => ~(cpc = "loop" /\ cpc' = "gather")]_vars
    /\ [][session = "closed" =>
            /\ Len(results') >= Len(results)
            /\ SubSeq(results', 1, Len(results)) = results]_vars

\* The fetches of the batch that hold the semaphore: between their request
\* and their return.
InFlight == {i \in DOMAIN tasks : tasks[i].pc \in {"robots", "get"}}

\* C25: at most max_concurrent fetches are in flight, a fetch only runs
\* while its batch is gathered, and the next batch is dispatched only when
\* every fetch of the current batch is done and its result merged.
C25_BatchesDoNotOverlap ==
    /\ [](Cardinality(InFlight) <= max_concurrent)
    /\ [](InFlight # {} => cpc = "gather")
    /\ [][(cpc = "loop" /\ cpc' = "gather") =>
            \A i \in DOMAIN tasks :
                /\ tasks[i].pc = "done"
                /\ i < idx
                /\ tasks[i].result # NoResult
                     => tasks[i].result \in Range(results)]_vars

\* C25 witness: a later batch with max_concurrent fetches in flight at once.
C25_Witness ==
    /\ cpc = "gather"
    /\ results # <<>>
    /\ max_concurrent = 2
    /\ Cardinality(InFlight) = 2

\* C22: the links of a page that was reached through a redirect are joined
\* to the final URL of the response and filtered for the domain of that
\* final URL: what the merge enqueues for such a page are exactly the new
\* links resolved against result['url'].
C22_LinksResolvedAgainstFinalUrl ==
    [][(/\ cpc = "merge"
        /\ idx \in DOMAIN batch
        /\ tasks[idx].result # NoResult
        /\ tasks[idx].result.redirected_from # NoneUrl
        /\ tasks[idx].result.status_code = 200
        /\ below_max_depth(MapGet(depth_map, batch[idx], 0)))
       => LET result == tasks[idx].result
              resolved == extract_links(result.soup, result.url)
          IN  /\ Range(to_visit') \ Range(to_visit) \subseteq resolved
              /\ new_links(resolved) \subseteq Range(to_visit')]_vars

\* C17: within one crawl session the robots.txt of a domain is requested at
\* most once, and a URL whose robots.txt request fails or is answered with
\* another status than 200 is allowed: its page is requested.
C17_RobotsRequestedOnce ==
    /\ [](\A r \in DOMAIN robots_gets : robots_gets[r] <= 1)
    /\ [][\A i \in DOMAIN tasks :
            (/\ cpc = "gather"
             /\ tasks[i].pc = "robots"
             /\ tasks'[i] # tasks[i]
             /\ robots_url_of(batch[i]) \notin DOMAIN robots_cache')
            => tasks'[i].pc = "get"]_vars

(***************************************************************************)
(* The cache: src/utils/cache_manager.py.                                  *)
(*                                                                         *)
(* Several threads call configure, set and get on the one CacheManager.    *)
(* A step of a thread is what it does between two points at which it can   *)
(* be preempted with an effect: acquiring the lock, and reading or writing *)
(* a statistics counter outside the lock.                                  *)
(***************************************************************************)

\* Bounds of the cache configurations and of the calls the model explores.
MaxEntriesBound == 2
MaxMemoryMbBound == 1
MaxExpirationBound == 1
MaxTimeBound == 2
MaxCallsBound == 3

Threads == {"t1", "t2"}

\* The key_data strings of the calls and hashlib.md5(data.encode()).hexdigest().
KeyData == {"key_0", "key_1", "key_2"}

get_cache_key(data) ==
    CASE data = "key_0" -> "9a53cbcc7dbaf825c0f5309a57c63070"
      [] data = "key_1" -> "bcc0f76ba3ff7262fd88be8c1728708f"
      [] data = "key_2" -> "24fd6a24d80aabe2116d80b6c3dc89e2"

\* The values stored: 'value_0' and 'x' * 500000, with len(json.dumps(value)).
SmallValue == "value_0"
LargeValue == "x * 500000"
Values == {SmallValue, LargeValue}

json_dumps_len(value) == IF value = LargeValue THEN 500002 ELSE 9

\* configure: max_memory_mb * 1024 * 1024.
max_memory_of(max_memory_mb) == max_memory_mb * 1024 * 1024

\* The CacheManager before configure(): self.config is None.
NoConfig ==
    [configured |-> FALSE, enabled |-> FALSE, expiration |-> 0,
     max_entries |-> 0, max_memory |-> 0]

Configs ==
    [configured : {TRUE}, enabled : BOOLEAN,
     expiration : 1..MaxExpirationBound,
     max_entries : 1..MaxEntriesBound,
     max_memory : {max_memory_of(mb) : mb \in 1..MaxMemoryMbBound}]

\* CacheStats().
CacheStats == [hits |-> 0, misses |-> 0, evictions |-> 0, size |-> 0,
               memory_usage |-> 0]

\* CacheEntry(data, expiration).
CacheEntry(key, data, expiration) ==
    [key |-> key, data |-> data, expiration |-> expiration]

\* What a cache file holds: the JSON of data and expiration, or text that
\* json.load rejects.
CacheFile(data, expiration) ==
    [valid |-> TRUE, data |-> data, expiration |-> expiration]

CorruptFile == [valid |-> FALSE, data |-> NoneVal, expiration |-> 0]

\* The directory .tfq0seo_cache as an earlier session can have left it.
InitialDirs ==
    { <<>>,
      MapPut(<<>>, get_cache_key("key_0"), CacheFile(SmallValue, 0)),
      MapPut(MapPut(<<>>, get_cache_key("key_0"), CorruptFile),
             get_cache_key("key_1"), CacheFile(SmallValue, MaxTimeBound)) }

\* What the caller of get has in hand when it calls: nothing to compare with.
NoSeen ==
    [state |-> "none", data |-> NoneVal, expiration |-> 0, evictions |-> 0,
     calls |-> 0]

\* A thread that is not inside a CacheManager call.
IdleThread ==
    [pc |-> "idle", op |-> NoneVal, key |-> NoneVal, data |-> NoneVal,
     expiration |-> 0, incr |-> <<>>, tmp |-> 0, ret |-> NoneVal,
     seen |-> NoSeen]

\* key in self.memory_cache, and self.memory_cache[key].
HasKey(cache, key) == \E i \in DOMAIN cache : cache[i].key = key

EntryOf(cache, key) == cache[CHOOSE i \in DOMAIN cache : cache[i].key = key]

\* del self.memory_cache[key].
DelKey(cache, key) == SelectSeq(cache, LAMBDA e : e.key # key)

\* self.memory_cache.move_to_end(key).
move_to_end(cache, key) == Append(DelKey(cache, key), EntryOf(cache, key))

\* self.memory_cache[key] = CacheEntry(...) followed by move_to_end(key).
put_entry(cache, entry) == Append(DelKey(cache, entry.key), entry)

\* _estimate_memory_usage (lines 293-302), for values json.dumps accepts.
RECURSIVE estimate_memory_usage(_)
estimate_memory_usage(cache) ==
    IF cache = <<>> THEN 0
    ELSE json_dumps_len(Head(cache).data) * 2 + estimate_memory_usage(Tail(cache))

\* _add_to_memory_cache lines 231-233: the cleanup condition, with
\* CLEANUP_THRESHOLD = 0.9 as 9/10.
cleanup_needed(cache, cfg) ==
    \/ 10 * Len(cache) >= 9 * cfg.max_entries
    \/ 10 * estimate_memory_usage(cache) >= 9 * cfg.max_memory

\* _cleanup_expired lines 275-278: the entries that stay, and how many go.
unexpired(cache, time) == SelectSeq(cache, LAMBDA e : ~(time > e.expiration))

\* _cleanup_cache lines 258-263: pop least recently used entries while over
\* a limit; gives the cache left.
RECURSIVE evict_lru(_, _)
evict_lru(cache, cfg) ==
    IF /\ \/ Len(cache) > cfg.max_entries
          \/ estimate_memory_usage(cache) > cfg.max_memory
       /\ cache # <<>>
    THEN evict_lru(Tail(cache), cfg)
    ELSE cache

\* _cleanup_expired lines 281-291: the files that stay are the valid ones
\* that have not expired; an expired file counts as an eviction.
files_kept(dir, time) ==
    {k \in DOMAIN dir : dir[k].valid /\ ~(time > dir[k].expiration)}

files_expired(dir, time) ==
    {k \in DOMAIN dir : dir[k].valid /\ time > dir[k].expiration}

\* get_stats (lines 304-326); hit_ratio as the pair hits, total requests.
get_stats ==
    [hits |-> stats.hits,
     misses |-> stats.misses,
     hit_ratio |-> IF stats.hits + stats.misses > 0
                   THEN << stats.hits, stats.hits + stats.misses >>
                   ELSE << 0, 1 >>,
     evictions |-> stats.evictions,
     current_size |-> stats.size,
     memory_usage |-> stats.memory_usage,
     max_size |-> config.max_entries,
     max_memory |-> config.max_memory]

\* del map[key]
MapDel(map, key) == [k \in DOMAIN map \ {key} |-> map[k]]

\* The entries of map under the keys of S.
Restrict(map, S) == [k \in S |-> map[k]]

\* The thread record of a call that returned ret (or raised it).
Returned(ret) == [IdleThread EXCEPT !.ret = ret]

\* The thread record of a call that has counters to add one to, outside the
\* lock, before it returns ret.
Counting(thread, counters, ret) ==
    [thread EXCEPT !.pc = "incr_read", !.incr = counters, !.ret = ret]

\* The state after CacheManager() (lines 73-88), with the directory as an
\* earlier session left it, and no thread inside a call.
CacheConstructed(dir) ==
    /\ config = NoConfig
    /\ memory_cache = <<>>
    /\ cache_dir = dir
    /\ stats = CacheStats
    /\ lock = "free"
    /\ threads = [t \in Threads |-> IdleThread]
    /\ now = 1
    /\ calls = 0
    /\ set_keys = {}
    /\ gets_done = 0

\* 1 in a step in which a get of thread t on an enabled cache returns a
\* value or None, 0 in any other step.
get_returns(t) ==
    IF /\ threads[t].op = "get"
       /\ threads[t].pc # "idle"
       /\ threads'[t].pc = "idle"
       /\ threads'[t].ret \notin {"OSError", "RuntimeError"}
    THEN 1 ELSE 0

\* configure (lines 90-107) up to its call of _cleanup_expired, whose line
\* 271 reads the clock.
Configure(t) ==
    /\ threads[t].pc = "idle"
    /\ ~config.configured
    /\ \E cfg \in Configs : config' = cfg
    /\ threads' = [threads EXCEPT ![t] =
           [IdleThread EXCEPT !.pc = "cleanup_expired", !.op = "configure",
                              !.tmp = now]]
    /\ UNCHANGED << memory_cache, cache_dir, stats, lock, now, calls, set_keys,
                    gets_done >>
    /\ UNCHANGED not_cache_vars

\* set (lines 192-210) up to the lock of _add_to_memory_cache.
SetCall(t) ==
    /\ threads[t].pc = "idle"
    /\ config.configured
    /\ calls < MaxCallsBound
    /\ \E key_data \in KeyData, value \in Values :
         /\ set_keys' = set_keys \cup {key_data}
         /\ threads' = [threads EXCEPT ![t] =
                IF ~config.enabled THEN Returned(NoneVal)
                ELSE [IdleThread EXCEPT !.pc = "add_lock", !.op = "set",
                                        !.key = get_cache_key(key_data),
                                        !.data = value,
                                        !.expiration = now + config.expiration]]
    /\ calls' = calls + 1
    /\ UNCHANGED << config, memory_cache, cache_dir, stats, lock, now,
                    gets_done >>
    /\ UNCHANGED not_cache_vars

\* _add_to_memory_cache (lines 230-245): takes the lock; when the threshold
\* is reached it calls _cleanup_cache, whose first statement is the call of
\* _cleanup_expired, while holding the lock; otherwise it stores the entry
\* and releases the lock.  After it, set writes the file and get counts a
\* hit.
AddToMemoryCache(t) ==
    /\ threads[t].pc = "add_lock"
    /\ lock = "free"
    /\ IF cleanup_needed(memory_cache, config)
       THEN /\ lock' = t
            /\ threads' = [threads EXCEPT ![t].pc = "cleanup_expired",
                                          ![t].tmp = now]
            /\ UNCHANGED << memory_cache, stats >>
       ELSE LET entry == CacheEntry(threads[t].key, threads[t].data,
                                    threads[t].expiration)
                cache == put_entry(memory_cache, entry)
            IN  /\ memory_cache' = cache
                /\ stats' = [stats EXCEPT !.size = Len(cache),
                                !.memory_usage = estimate_memory_usage(cache)]
                /\ lock' = "free"
                /\ threads' = [threads EXCEPT ![t] =
                       IF threads[t].op = "set"
                       THEN [threads[t] EXCEPT !.pc = "file_write"]
                       ELSE Counting(threads[t], << "hits" >>, threads[t].data)]
    /\ UNCHANGED << config, cache_dir, now, calls, set_keys >>
    /\ gets_done' = gets_done + get_returns(t)
    /\ UNCHANGED not_cache_vars

\* _cleanup_expired lines 274-278: takes the lock, which threading.Lock
\* grants only when no thread holds it, the caller included; drops the
\* expired entries and releases the lock.
CleanupExpiredMemory(t) ==
    /\ threads[t].pc = "cleanup_expired"
    /\ lock = "free"
    /\ LET cache == unexpired(memory_cache, threads[t].tmp)
       IN  /\ memory_cache' = cache
           /\ stats' = [stats EXCEPT
                  !.evictions = @ + Len(memory_cache) - Len(cache)]
    /\ lock' = "free"
    /\ threads' = [threads EXCEPT ![t].pc = "cleanup_files"]
    /\ UNCHANGED << config, cache_dir, now, calls, set_keys >>
    /\ gets_done' = gets_done + get_returns(t)
    /\ UNCHANGED not_cache_vars

\* _cleanup_expired lines 281-291, outside the lock: unlinks the expired and
\* the unreadable files and counts the expired ones as evictions.  Then
\* configure returns; _cleanup_cache (lines 258-267) would go on to evict
\* least recently used entries and _add_to_memory_cache (lines 236-245) to
\* store the entry and to release a lock that line 274's with statement has
\* released already.
CleanupExpiredFiles(t) ==
    /\ threads[t].pc = "cleanup_files"
    /\ LET expired == Cardinality(files_expired(cache_dir, threads[t].tmp))
           entry == CacheEntry(threads[t].key, threads[t].data,
                               threads[t].expiration)
           kept == evict_lru(memory_cache, config)
           cache == put_entry(kept, entry)
       IN  /\ cache_dir' = Restrict(cache_dir, files_kept(cache_dir, threads[t].tmp))
           /\ IF threads[t].op = "configure"
              THEN /\ threads' = [threads EXCEPT ![t] =
                          IF expired = 0 THEN Returned(NoneVal)
                          ELSE Counting(threads[t],
                                        [i \in 1..expired |-> "evictions"],
                                        NoneVal)]
                   /\ UNCHANGED << memory_cache, stats >>
              ELSE /\ memory_cache' = cache
                   /\ stats' = [stats EXCEPT
                          !.evictions = @ + expired + Len(memory_cache) - Len(kept),
                          !.size = Len(cache),
                          !.memory_usage = estimate_memory_usage(cache)]
                   /\ threads' = [threads EXCEPT ![t] = Returned("RuntimeError")]
    /\ UNCHANGED << config, lock, now, calls, set_keys >>
    /\ gets_done' = gets_done + get_returns(t)
    /\ UNCHANGED not_cache_vars

\* set lines 212-220: writes the cache file and returns; open() or
\* json.dump may raise, which set does not catch.
SetFileWrite(t) ==
    /\ threads[t].pc = "file_write"
    /\ \E written \in BOOLEAN :
         IF written
         THEN /\ cache_dir' = MapPut(cache_dir, threads[t].key,
                                     CacheFile(threads[t].data, threads[t].expiration))
              /\ threads' = [threads EXCEPT ![t] = Returned(NoneVal)]
         ELSE /\ cache_dir' = cache_dir
              /\ threads' = [threads EXCEPT ![t] = Returned("OSError")]
    /\ UNCHANGED << config, memory_cache, stats, lock, now, calls, set_keys,
                    gets_done >>
    /\ UNCHANGED not_cache_vars

\* What the caller of get(key) has in hand when no other call is open: the
\* value and the expiration that the last set of the key left (in memory,
\* or in its file when the memory cache holds no entry; nothing when two
\* racing sets left the two apart), whether that expiration has passed, and the evictions counter (the test reads them
\* with get_stats around the call, test_cache_expiration lines 52-61).
seen_by_caller(t, key) ==
    LET quiet == \A o \in Threads \ {t} : threads[o].pc = "idle"
        inmem == HasKey(memory_cache, key)
        infile == key \in DOMAIN cache_dir /\ cache_dir[key].valid
        left == IF inmem THEN EntryOf(memory_cache, key) ELSE cache_dir[key]
        agree == (inmem /\ infile) =>
                    /\ cache_dir[key].data = left.data
                    /\ cache_dir[key].expiration = left.expiration
    IN  IF ~quiet \/ ~(inmem \/ infile) \/ ~agree THEN NoSeen
        ELSE [state |-> IF now < left.expiration THEN "live" ELSE "expired",
              data |-> left.data,
              expiration |-> left.expiration,
              evictions |-> stats.evictions,
              calls |-> calls + 1]

\* get (lines 131-150) up to the lock.
GetCall(t) ==
    /\ threads[t].pc = "idle"
    /\ config.configured
    /\ calls < MaxCallsBound
    /\ \E key_data \in KeyData :
         threads' = [threads EXCEPT ![t] =
             IF ~config.enabled THEN Returned(NoneVal)
             ELSE [IdleThread EXCEPT !.pc = "get_lock", !.op = "get",
                                     !.key = get_cache_key(key_data),
                                     !.seen = seen_by_caller(t, get_cache_key(key_data))]]
    /\ calls' = calls + 1
    /\ UNCHANGED << config, memory_cache, cache_dir, stats, lock, now, set_keys,
                    gets_done >>
    /\ UNCHANGED not_cache_vars

\* get lines 150-164, under the lock: a live entry becomes the most recently
\* used one, counts as a hit and is returned; an expired entry is deleted
\* and counts as an eviction.
GetMemory(t) ==
    /\ threads[t].pc = "get_lock"
    /\ lock = "free"
    /\ LET key == threads[t].key
       IN  IF HasKey(memory_cache, key)
           THEN IF now < EntryOf(memory_cache, key).expiration
                THEN /\ memory_cache' = move_to_end(memory_cache, key)
                     /\ stats' = [stats EXCEPT !.hits = @ + 1]
                     /\ threads' = [threads EXCEPT ![t] =
                            Returned(EntryOf(memory_cache, key).data)]
                ELSE /\ memory_cache' = DelKey(memory_cache, key)
                     /\ stats' = [stats EXCEPT !.evictions = @ + 1]
                     /\ threads' = [threads EXCEPT ![t].pc = "get_file"]
           ELSE /\ threads' = [threads EXCEPT ![t].pc = "get_file"]
                /\ UNCHANGED << memory_cache, stats >>
    /\ lock' = "free"
    /\ UNCHANGED << config, cache_dir, now, calls, set_keys >>
    /\ gets_done' = gets_done + get_returns(t)
    /\ UNCHANGED not_cache_vars

\* get lines 166-190, outside the lock: a live file is put into the memory
\* cache and counts as a hit; an expired file is unlinked and counts as an
\* eviction and a miss; an unparsable file is unlinked and counts as a miss;
\* no file is a miss.  open() may raise, which get does not catch.
GetFile(t) ==
    /\ threads[t].pc = "get_file"
    /\ LET key == threads[t].key
       IN  IF key \in DOMAIN cache_dir
           THEN \E opened \in BOOLEAN :
                  IF ~opened
                  THEN /\ threads' = [threads EXCEPT ![t] = Returned("OSError")]
                       /\ cache_dir' = cache_dir
                  ELSE IF ~cache_dir[key].valid
                  THEN /\ threads' = [threads EXCEPT ![t] =
                              Counting(threads[t], << "misses" >>, NoneVal)]
                       /\ cache_dir' = MapDel(cache_dir, key)
                  ELSE IF now < cache_dir[key].expiration
                  THEN /\ threads' = [threads EXCEPT ![t] =
                              [threads[t] EXCEPT !.pc = "add_lock",
                                   !.data = cache_dir[key].data,
                                   !.expiration = cache_dir[key].expiration]]
                       /\ cache_dir' = cache_dir
                  ELSE /\ threads' = [threads EXCEPT ![t] =
                              Counting(threads[t], << "evictions", "misses" >>,
                                       NoneVal)]
                       /\ cache_dir' = MapDel(cache_dir, key)
           ELSE /\ threads' = [threads EXCEPT ![t] =
                       Counting(threads[t], << "misses" >>, NoneVal)]
                /\ cache_dir' = cache_dir
    /\ UNCHANGED << config, memory_cache, stats, lock, now, calls, set_keys >>
    /\ gets_done' = gets_done + get_returns(t)
    /\ UNCHANGED not_cache_vars

\* self.stats.<counter> += 1 outside the lock: the read of the counter.
IncrRead(t) ==
    /\ threads[t].pc = "incr_read"
    /\ threads' = [threads EXCEPT ![t].pc = "incr_write",
                                  ![t].tmp = stats[Head(threads[t].incr)]]
    /\ UNCHANGED << config, memory_cache, cache_dir, stats, lock, now, calls,
                    set_keys,
                    gets_done >>
    /\ UNCHANGED not_cache_vars

\* self.stats.<counter> += 1 outside the lock: the write of the counter;
\* after the last one the call returns.
IncrWrite(t) ==
    /\ threads[t].pc = "incr_write"
    /\ stats' = [stats EXCEPT ![Head(threads[t].incr)] = threads[t].tmp + 1]
    /\ threads' = [threads EXCEPT ![t] =
           IF Tail(threads[t].incr) = <<>> THEN Returned(threads[t].ret)
           ELSE [threads[t] EXCEPT !.pc = "incr_read",
                                   !.incr = Tail(threads[t].incr)]]
    /\ UNCHANGED << config, memory_cache, cache_dir, lock, now, calls, set_keys >>
    /\ gets_done' = gets_done + get_returns(t)
    /\ UNCHANGED not_cache_vars

\* Time passes.
Tick ==
    /\ now < MaxTimeBound
    /\ now' = now + 1
    /\ UNCHANGED << config, memory_cache, cache_dir, stats, lock, threads,
                    calls, set_keys,
                    gets_done >>
    /\ UNCHANGED not_cache_vars

\* What a thread does inside a call; the scheduler runs every thread that
\* can take a step.
ThreadStep(t) ==
    \/ AddToMemoryCache(t)
    \/ CleanupExpiredMemory(t)
    \/ CleanupExpiredFiles(t)
    \/ SetFileWrite(t)
    \/ GetMemory(t)
    \/ GetFile(t)
    \/ IncrRead(t)
    \/ IncrWrite(t)

(***************************************************************************)
(* Properties of the cache.                                                *)
(***************************************************************************)

\* No thread is inside a CacheManager call.
AllReturned == \A t \in Threads : threads[t].pc = "idle"

\* C3: once set() has been called with more than max_entries distinct keys,
\* the calls return and then the memory cache and get_stats()'s
\* current_size hold at most max_entries entries.
C3_SizeBoundAfterSets ==
    []((/\ config.configured
        /\ Cardinality(set_keys) > config.max_entries)
       => <>(/\ AllReturned
             /\ Len(memory_cache) <= config.max_entries
             /\ get_stats.current_size <= config.max_entries))

\* A set() is about to insert a value that, together with the values the
\* memory cache holds, exceeds the memory limit.
InsertingBeyondMemory ==
    \E t \in Threads :
        /\ threads[t].op = "set"
        /\ threads[t].pc = "add_lock"
        /\ estimate_memory_usage(put_entry(memory_cache,
               CacheEntry(threads[t].key, threads[t].data, threads[t].expiration)))
             > config.max_memory

\* C13: when the values passed to set() together exceed the memory limit,
\* the calls return and then get_stats() reports a memory usage of at most
\* the limit and at least one eviction.
C13_MemoryBoundAfterSets ==
    [](InsertingBeyondMemory
       => <>(/\ AllReturned
             /\ get_stats.memory_usage <= get_stats.max_memory
             /\ get_stats.evictions > 0))

\* The set() of thread t is about to insert the new key n into a memory
\* cache that holds max_entries entries, the least recently used being k.
SetOnFullCache(t, k, n) ==
    /\ threads[t].op = "set"
    /\ threads[t].pc = "add_lock"
    /\ threads[t].key = n
    /\ ~HasKey(memory_cache, n)
    /\ Len(memory_cache) = config.max_entries
    /\ Head(memory_cache).key = k

\* C14: a get() that hits in memory makes its entry the most recently used
\* one, and a set() of a new key on a full cache returns with the least
\* recently used entry removed and the new entry stored.
C14_LeastRecentlyUsedEvicted ==
    /\ [][\A t \in Threads :
            (threads[t].pc = "get_lock" /\ threads'[t].pc = "idle")
            => (/\ memory_cache' # <<>>
                /\ memory_cache'[Len(memory_cache')].key = threads[t].key
                /\ threads'[t].ret = memory_cache'[Len(memory_cache')].data)]_vars
    /\ \A t \in Threads :
         \A k \in {get_cache_key(d) : d \in KeyData} :
           \A n \in {get_cache_key(d) : d \in KeyData} :
             [](SetOnFullCache(t, k, n)
                => <>(/\ threads[t].pc = "idle"
                      /\ ~HasKey(memory_cache, k)
                      /\ HasKey(memory_cache, n)))

\* C28: no thread that holds the cache lock tries to take it again, and
\* every set() and get() that a thread has issued returns.
C28_NoCallBlocksForever ==
    /\ [](\A t \in Threads :
            ~(lock = t /\ threads[t].pc = "cleanup_expired"))
    /\ \A t \in Threads :
          [](threads[t].op \in {"set", "get"} /\ threads[t].pc # "idle"
             => <>(threads[t].pc = "idle"))

\* C24: the statistics counters change only under the cache lock, so that no
\* addition is lost: whenever no call is open, hits + misses is the number
\* of get() calls on the enabled cache that have returned.
C24_CountersSerialized ==
    [](AllReturned => stats.hits + stats.misses = gets_done)

\* The step in which the get of thread t returns to a caller that had
\* something in hand and issued the call alone, no other call having been
\* issued since.
GetReturns(t) ==
    /\ threads[t].op = "get"
    /\ threads[t].seen.state # "none"
    /\ threads'[t].pc = "idle"
    /\ calls' = threads[t].seen.calls

\* C12: on an enabled cache a get(k) issued after set(k, v) and returning
\* before the time-to-live has elapsed returns v; a get(k) issued after the
\* time-to-live has elapsed returns a miss and leaves the evictions counter
\* larger than it was before the get.
C12_TimeToLive ==
    [][\A t \in Threads :
         GetReturns(t) =>
           LET seen == threads[t].seen
           IN  /\ (seen.state = "live" /\ now' < seen.expiration)
                      => threads'[t].ret = seen.data
               /\ seen.state = "expired"
                      => (/\ threads'[t].ret = NoneVal
                          /\ stats'.evictions > seen.evictions)]_vars

\* C15: no failure of the file operations leaves set() or get() as an
\* exception: a set() that returns returns None, and a get() that returns
\* returns a cached value or None.
C15_CacheErrorsNeverRaise ==
    [][\A t \in Threads :
         (threads[t].pc # "idle" /\ threads'[t].pc = "idle")
         => (/\ threads[t].op = "set" => threads'[t].ret = NoneVal
             /\ threads[t].op = "get" => threads'[t].ret \in Values \cup {NoneVal})]_vars

(***************************************************************************)
(* The orchestrator: tfq0seo/core/app.py.                                  *)
(*                                                                         *)
(* SEOAnalyzer.crawl_site analyses the entries of crawler.results as the   *)
(* crawl appends them; generate_site_report summarises the analyses.  Here *)
(* the crawler is seen through what it appends to its results.  Scores are *)
(* kept times 100 so that the weights 0.25, 0.25, 0.20, 0.20 and 0.10 are  *)
(* the integers 25, 25, 20, 20 and 10; an average is the pair of its sum   *)
(* and its count.                                                          *)
(***************************************************************************)

\* Bound of the pages the orchestrator is given.
MaxAnalyzedPagesBound == 2

\* The analyzers in the order analyze_page calls them (lines 68-100).
Analyzers == << "seo", "content", "technical", "performance", "links" >>

\* Weights that give the links analyzer 20%, 110% in all.
weight_links_doubled(analyzer) ==
    CASE analyzer = "seo" -> 25
      [] analyzer = "content" -> 25
      [] analyzer = "technical" -> 20
      [] analyzer = "performance" -> 20
      [] analyzer = "links" -> 20

\* analyze_page lines 103-109: the weight of each analyzer's score, times 100.
weight(analyzer) ==
    CASE analyzer = "seo" -> 25
      [] analyzer = "content" -> 25
      [] analyzer = "technical" -> 20
      [] analyzer = "performance" -> 20
      [] analyzer = "links" -> 10

\* What an analyzer can do with a page: raise, or return a score; 'score' is
\* max(0, score) of a score that starts at 100 and is only lowered.
AnalyzerScores == {0, 100}

AnalyzerOutcomes ==
    {[raises |-> TRUE, score |-> 0]} \cup [raises : {FALSE}, score : AnalyzerScores]

\* create_issue (analyzers/seo.py lines 9-18); generate_site_report adds 'url'.
create_issue(category, severity, message) ==
    [keys |-> {"category", "severity", "message"},
     category |-> category, severity |-> severity, message |-> message,
     url |-> NoneUrl]

\* The dict an analyzer returns: a page scored below 100 has an issue.
analyzer_result(analyzer, outcome) ==
    [keys |-> {"score", "issues", "data"},
     score |-> outcome.score,
     issues |-> IF outcome.score < 100
                THEN << create_issue(analyzer, "warning", analyzer) >>
                ELSE << >>]

\* A section that the page result does not have.
NoSection == [keys |-> {}, score |-> 0, issues |-> << >>]

\* A page result with no key.
NoAnalysis ==
    [keys |-> {}, url |-> NoneUrl, status_code |-> 0, error |-> NoneVal,
     seo |-> NoSection, content |-> NoSection, technical |-> NoSection,
     performance |-> NoSection, links |-> NoSection,
     overall_score |-> 0, issues |-> << >>]

\* The position of the first analyzer that raises, 0 when none does.
FirstRaising(outcomes) ==
    IF \E i \in DOMAIN Analyzers : outcomes[Analyzers[i]].raises
    THEN CHOOSE i \in DOMAIN Analyzers :
            /\ outcomes[Analyzers[i]].raises
            /\ \A j \in 1..(i - 1) : ~outcomes[Analyzers[j]].raises
    ELSE 0

\* sum(scores) of analyze_page lines 103-110, times 100.
RECURSIVE WeightedSum(_, _)
WeightedSum(outcomes, i) ==
    IF i = 0 THEN 0
    ELSE weight(Analyzers[i]) * outcomes[Analyzers[i]].score
         + WeightedSum(outcomes, i - 1)

\* analyze_page lines 113-116: the issues of the sections, in analyzer order.
RECURSIVE AllIssues(_, _)
AllIssues(outcomes, i) ==
    IF i = 0 THEN << >>
    ELSE AllIssues(outcomes, i - 1)
         \o analyzer_result(Analyzers[i], outcomes[Analyzers[i]]).issues

\* page_data.get('soup') is falsy only when the key is missing: a
\* BeautifulSoup object is true whatever it holds.
not_soup(page_data) == "soup" \notin page_data.keys

\* analyze_page (lines 36-133) for analyzers that behave as outcomes says.
analyze_page(page_data, outcomes) ==
    IF "error" \in page_data.keys
    THEN [NoAnalysis EXCEPT !.keys = {"url", "error", "status_code"},
                            !.url = page_data.url,
                            !.error = page_data.error,
                            !.status_code = page_data.status_code]
    ELSE IF not_soup(page_data)
    THEN [NoAnalysis EXCEPT !.keys = {"url", "error", "status_code"},
                            !.url = page_data.url,
                            !.error = "No content to analyze",
                            !.status_code = page_data.status_code]
    ELSE LET raising == FirstRaising(outcomes)
             ran == IF raising = 0 THEN Len(Analyzers) ELSE raising - 1
             section(i) == IF i <= ran
                           THEN analyzer_result(Analyzers[i], outcomes[Analyzers[i]])
                           ELSE NoSection
             started ==
                 [NoAnalysis EXCEPT
                     !.keys = {"url", "status_code", "load_time", "timestamp"}
                              \cup {Analyzers[i] : i \in 1..ran},
                     !.url = page_data.url,
                     !.status_code = page_data.status_code,
                     !.seo = section(1),
                     !.content = section(2),
                     !.technical = section(3),
                     !.performance = section(4),
                     !.links = section(5)]
         IN  IF raising = 0
             THEN [started EXCEPT
                      !.keys = @ \cup {"overall_score", "issues", "issue_counts",
                                       "recommendations"},
                      !.overall_score = WeightedSum(outcomes, Len(Analyzers)),
                      !.issues = AllIssues(outcomes, Len(Analyzers))]
             ELSE [started EXCEPT
                      !.keys = @ \cup {"error", "overall_score", "issues"},
                      !.error = "Analysis error",
                      !.overall_score = 0,
                      !.issues = << >>]

\* analyze_page lines 56-57: the page is recorded as a broken link.
tracks_broken_link(page_data) ==
    /\ "error" \notin page_data.keys
    /\ ~not_soup(page_data)
    /\ page_data.status_code >= 400

\* The analyzer that raised in analyze_page, NoneVal when none was run or
\* none raised.
raised_in(page_data, outcomes) ==
    IF "error" \in page_data.keys \/ not_soup(page_data) \/ FirstRaising(outcomes) = 0
    THEN NoneVal
    ELSE Analyzers[FirstRaising(outcomes)]

\* page[category] of a page result.
Section(page, category) ==
    CASE category = "seo" -> page.seo
      [] category = "content" -> page.content
      [] category = "technical" -> page.technical
      [] category = "performance" -> page.performance
      [] category = "links" -> page.links

\* generate_site_report lines 282-287: the pages with and without 'error'.
failed_pages(page_results) ==
    LET failed == SelectSeq(page_results, LAMBDA page : "error" \in page.keys)
    IN  [i \in DOMAIN failed |-> failed[i].url]

\* A report loop that does not skip the pages with 'error'.
successful_with_errors(page_results) == page_results

successful(page_results) ==
    SelectSeq(page_results, LAMBDA page : "error" \notin page.keys)

successful_pages(page_results) ==
    [i \in DOMAIN successful(page_results) |-> successful(page_results)[i].url]

\* sum(numbers)
RECURSIVE Sum(_)
Sum(numbers) == IF numbers = << >> THEN 0 ELSE Head(numbers) + Sum(Tail(numbers))

\* generate_site_report line 288: total_score over the successful pages.
total_score(page_results) ==
    Sum([i \in DOMAIN successful(page_results) |->
            IF "overall_score" \in successful(page_results)[i].keys
            THEN successful(page_results)[i].overall_score
            ELSE 0])

\* generate_site_report lines 290-293: the scores collected for a category.
category_scores(page_results, category) ==
    LET scored == SelectSeq(successful(page_results),
                      LAMBDA page : /\ category \in page.keys
                                    /\ "score" \in Section(page, category).keys)
    IN  [i \in DOMAIN scored |-> Section(scored[i], category).score]

\* generate_site_report lines 295-299: issue['url'] = page['url'] on the
\* issue dicts of a successful page, which its sections hold as well.
with_url(issues, url) == [i \in DOMAIN issues |-> [issues[i] EXCEPT !.url = url]]

section_with_url(section, url) == [section EXCEPT !.issues = with_url(@, url)]

with_issue_urls(page_results) ==
    [i \in DOMAIN page_results |->
        IF "error" \in page_results[i].keys \/ page_results[i].issues = << >>
        THEN page_results[i]
        ELSE [page_results[i] EXCEPT
                 !.issues = with_url(@, page_results[i].url),
                 !.seo = section_with_url(@, page_results[i].url),
                 !.content = section_with_url(@, page_results[i].url),
                 !.technical = section_with_url(@, page_results[i].url),
                 !.performance = section_with_url(@, page_results[i].url),
                 !.links = section_with_url(@, page_results[i].url)]]

\* No report yet.
NoReport ==
    [keys |-> {}, error |-> NoneVal,
     summary |-> [total_pages |-> 0, successful_pages |-> 0, failed_pages |-> 0],
     overall_score |-> << 0, 1 >>, category_scores |-> << >>]

\* generate_site_report (lines 263-318): the summary and the averages; an
\* average is the pair of the sum and the count it is divided by.
generate_site_report(page_results) ==
    IF page_results = << >>
    THEN [NoReport EXCEPT !.keys = {"error"}, !.error = "No pages to analyze"]
    ELSE LET num_successful == Len(successful_pages(page_results))
             categories == {c \in Range(Analyzers) :
                               category_scores(page_results, c) # << >>}
         IN  [keys |-> {"summary", "overall_score", "category_scores"},
              error |-> NoneVal,
              summary |-> [total_pages |-> Len(page_results),
                           successful_pages |-> num_successful,
                           failed_pages |-> Len(failed_pages(page_results))],
              overall_score |-> IF num_successful > 0
                                THEN << total_score(page_results), num_successful >>
                                ELSE << 0, 1 >>,
              category_scores |->
                  [c \in categories |->
                      << Sum(category_scores(page_results, c)),
                         Len(category_scores(page_results, c)) >>]]

\* The URLs of the pages the crawl appends, in the order it appends them.
AnalyzedUrls ==
    << start_url, HostUrl(<<"/", "b">>), HostUrl(<<"/", "c">>),
       HostUrl(<<"/", "p", "/", "a">>) >>

\* What the crawl can append for a URL: a page, a page answered with HTTP
\* 500, or the error dict of a failed fetch.
CrawledPages(url) ==
    { fetch_page_result(url, url, 200, {}),
      fetch_page_result(url, url, 500, {}),
      fetch_page_error(url, "Timeout") }

\* The state after SEOAnalyzer(config) (lines 29-34).
AnalyzerConstructed ==
    /\ app_results = << >>
    /\ broken_links = {}
    /\ processed = 0
    /\ site_report = NoReport
    /\ raised = << >>
    /\ stream = "open"

\* A loop condition that only looks at the crawl task.
stream_continues_while_crawling == cpc # "done"

\* SEOAnalyzer.crawl_site line 204: the condition of the while loop.
stream_continues == cpc # "done" \/ processed < Len(results)

\* Crawler.crawl_site line 242, seen from SEOAnalyzer.crawl_site: the crawl
\* task appends a page dict to crawler.results.
CrawlerAppends ==
    /\ cpc # "done"
    /\ Len(results) < max_pages
    /\ \E page_data \in CrawledPages(AnalyzedUrls[Len(results) + 1]) :
         results' = Append(results, page_data)
    /\ UNCHANGED << max_pages, max_depth, max_concurrent, respect_robots,
                    visited_urls, failed_urls, robots_cache, to_visit,
                    depth_map, batch, tasks, semaphore, cpc, idx, page_gets,
                    session, robots_gets >>
    /\ UNCHANGED << analysis_vars, cache_vars, report_vars, util_vars >>

\* Crawler.crawl_site line 258, seen from SEOAnalyzer.crawl_site: the crawl
\* task is done.
CrawlerDone ==
    /\ cpc # "done"
    /\ cpc' = "done"
    /\ UNCHANGED << max_pages, max_depth, max_concurrent, respect_robots,
                    visited_urls, failed_urls, results, robots_cache, to_visit,
                    depth_map, batch, tasks, semaphore, idx, page_gets,
                    session, robots_gets >>
    /\ UNCHANGED << analysis_vars, cache_vars, report_vars, util_vars >>

\* SEOAnalyzer.crawl_site lines 205-212: analyse the next entry of
\* crawler.results and append the analysis to self.results.
AnalyzeNext ==
    /\ stream = "open"
    /\ stream_continues
    /\ processed < Len(results)
    /\ \E outcomes \in [Range(Analyzers) -> AnalyzerOutcomes] :
         LET page_data == results[processed + 1]
         IN  /\ app_results' = Append(app_results, analyze_page(page_data, outcomes))
             /\ broken_links' = IF tracks_broken_link(page_data)
                                THEN broken_links \cup {page_data.url}
                                ELSE broken_links
             /\ raised' = Append(raised, raised_in(page_data, outcomes))
    /\ processed' = processed + 1
    /\ UNCHANGED << site_report, stream >>
    /\ UNCHANGED << crawler_vars, cache_vars, report_vars, util_vars >>

\* SEOAnalyzer.crawl_site lines 204 and 216: the while loop is left, the
\* crawl task is awaited and the iterator ends.
StreamEnds ==
    /\ stream = "open"
    /\ ~stream_continues
    /\ stream' = "ended"
    /\ UNCHANGED << app_results, broken_links, processed, site_report, raised >>
    /\ UNCHANGED << crawler_vars, cache_vars, report_vars, util_vars >>

\* generate_site_report(self.results) once the stream has ended (lines
\* 263-318).
GenerateSiteReport ==
    /\ stream = "ended"
    /\ site_report = NoReport
    /\ site_report' = generate_site_report(app_results)
    /\ app_results' = with_issue_urls(app_results)
    /\ UNCHANGED << broken_links, processed, raised, stream >>
    /\ UNCHANGED << crawler_vars, cache_vars, report_vars, util_vars >>

(***************************************************************************)
(* Properties of the orchestrator.                                         *)
(***************************************************************************)

\* C6: when an analyzer raised while a page was analysed, the page result
\* still has the section of every analyzer, the section of the analyzer
\* that raised has score 0 and an issue recorded for it, and the issues of
\* the other sections are in the page's issues.
C6_AnalyzerFailureIsolated ==
    \A i \in DOMAIN app_results :
        raised[i] # NoneVal =>
            LET page == app_results[i]
            IN  /\ \A analyzer \in Range(Analyzers) :
                      /\ analyzer \in page.keys
                      /\ "score" \in Section(page, analyzer).keys
                /\ Section(page, raised[i]).score = 0
                /\ \E k \in DOMAIN page.issues :
                      page.issues[k].category = raised[i]
                /\ \A analyzer \in Range(Analyzers) \ {raised[i]} :
                      Range(Section(page, analyzer).issues) \subseteq Range(page.issues)

\* C7: in the site report a page that was answered with HTTP 500 has
\* status_code 500, is one of the failed pages and is not one of the pages
\* whose scores are averaged.
C7_ServerErrorPageFailed ==
    site_report # NoReport =>
        \A i \in DOMAIN app_results :
            ("error" \notin results[i].keys /\ results[i].status_code = 500) =>
                /\ app_results[i].status_code = 500
                /\ app_results[i].url \in Range(failed_pages(app_results))
                /\ app_results[i].url \notin Range(successful_pages(app_results))
                /\ site_report.summary.failed_pages
                       = Len(failed_pages(app_results))

\* page.get('overall_score', 0), as generate_site_report (line 288) and
\* the other readers of a page result read the composite score.
ScoreRead(page) == IF "overall_score" \in page.keys THEN page.overall_score ELSE 0

\* The first k page results without those of the pages whose fetch result
\* carried an error.
RECURSIVE WithoutFetchErrors(_)
WithoutFetchErrors(k) ==
    IF k = 0 THEN << >>
    ELSE IF "error" \in results[k].keys THEN WithoutFetchErrors(k - 1)
    ELSE Append(WithoutFetchErrors(k - 1), app_results[k])

\* C18: the result of a page whose fetch result carries an error has no
\* analyzer section, the error of the fetch and a composite score that
\* reads as 0; the site report counts it in total_pages and failed_pages,
\* and its overall and category averages are those of the other pages.
C18_ErrorPagesBypassAnalyzers ==
    \A i \in DOMAIN app_results :
        "error" \in results[i].keys =>
            LET page == app_results[i]
                rest == WithoutFetchErrors(Len(app_results))
            IN  /\ page.keys \cap Range(Analyzers) = {}
                /\ raised[i] = NoneVal
                /\ "error" \in page.keys
                /\ page.error = results[i].error
                /\ page.error # NoneVal
                /\ ScoreRead(page) = 0
                /\ site_report # NoReport =>
                      /\ site_report.summary.total_pages = Len(app_results)
                      /\ page.url \in Range(failed_pages(app_results))
                      /\ site_report.summary.failed_pages
                             = Len(failed_pages(app_results))
                      /\ site_report.summary.successful_pages
                             = Len(rest) - Len(failed_pages(rest))
                      /\ site_report.overall_score
                             = IF rest = << >> THEN << 0, 1 >>
                               ELSE generate_site_report(rest).overall_score
                      /\ site_report.category_scores
                             = IF rest = << >> THEN << >>
                               ELSE generate_site_report(rest).category_scores

\* C18 witness: a site report over a page whose fetch failed and a page
\* that was analysed with a positive composite score.
C18_Witness ==
    /\ site_report # NoReport
    /\ \E i, j \in DOMAIN app_results :
          /\ "error" \in results[i].keys
          /\ "error" \notin app_results[j].keys
          /\ ScoreRead(app_results[j]) > 0
          /\ site_report.overall_score[2] = Len(app_results) - 1

\* C20: the weights of analyze_page sum to 1.0, and every page result has a
\* composite score between 0 and 100 (0 and 10000 in the model, where the
\* weights are times 100); for a page whose analyzers all returned, it is
\* the weighted sum of their scores.
C20_CompositeScoreInRange ==
    /\ Sum([i \in DOMAIN Analyzers |-> weight(Analyzers[i])]) = 100
    /\ \A i \in DOMAIN app_results :
          LET page == app_results[i]
          IN  /\ ScoreRead(page) >= 0
              /\ ScoreRead(page) <= 100 * 100
              /\ "error" \notin page.keys =>
                    /\ "overall_score" \in page.keys
                    /\ page.overall_score
                          = Sum([k \in DOMAIN Analyzers |->
                                   weight(Analyzers[k]) * Section(page, Analyzers[k]).score])

\* C20 witness: one page was analysed with every analyzer score at 100 and
\* one with every analyzer score at 0.
C20_Witness ==
    \E i, j \in DOMAIN app_results :
        /\ "error" \notin app_results[i].keys
        /\ "error" \notin app_results[j].keys
        /\ \A analyzer \in Range(Analyzers) :
              /\ Section(app_results[i], analyzer).score = 100
              /\ Section(app_results[j], analyzer).score = 0
        /\ app_results[i].overall_score = 100 * 100
        /\ app_results[j].overall_score = 0

\* C26: the stream yields one analysis per entry of crawler.results, in the
\* order of the entries and only of entries that are there, and it ends only
\* when the crawl task is done and every entry has been analysed.
C26_StreamFollowsCrawl ==
    /\ [](/\ Len(app_results) = processed
          /\ processed <= Len(results)
          /\ \A i \in DOMAIN app_results :
                /\ app_results[i].url = results[i].url
                /\ app_results[i].status_code = results[i].status_code)
    /\ [][/\ Len(app_results') \in {Len(app_results), Len(app_results) + 1}
          /\ SubSeq(app_results', 1, Len(app_results)) # app_results
               => stream' = "ended"]_vars
    /\ [](stream = "ended" => cpc = "done" /\ Len(app_results) = Len(results))

\* C26 witness: the stream ended after it yielded the analyses of a crawl
\* that appended more than one entry.
C26_Witness ==
    /\ stream = "ended"
    /\ Len(results) > 1
    /\ Len(app_results) = Len(results)
    /\ site_report = NoReport

(***************************************************************************)
(* The issue aggregator: tfq0seo/core/report_generator.py.                 *)
(*                                                                         *)
(* _extract_all_issues is applied to analysis results drawn from a bounded *)
(* set of pages.  The issue dicts of a page are shared between its         *)
(* 'issues' list and its sections; id stands for the identity of a dict.   *)
(***************************************************************************)

\* Bound of the pages of the analysis results.
MaxReportPagesBound == 3

\* The sections _extract_page_issues reads (line 132), in its order.
ReportSections == << "meta_tags", "content", "technical", "performance", "links" >>

\* An issue dict before the aggregator has seen it.
TypedIssue(id, type) ==
    [id |-> id, keys |-> {"type", "severity"}, type |-> type,
     page_url |-> NoneUrl, source |-> NoneVal, occurrences |-> 0,
     affected_pages |-> << >>, aggregate_confidence |-> << 0, 1 >>]

\* An issue dict as the analyzers' create_issue builds it: it has no 'type'.
UntypedIssue(id) == [TypedIssue(id, NoneVal) EXCEPT !.keys = {"category", "severity"}]

\* A page of the analysis results; sections maps the names of the sections
\* it has to their 'issues' lists.
ReportPage(url, issues, sections) ==
    [keys |-> {"url", "issues"} \cup DOMAIN sections, url |-> url,
     issues |-> issues, sections |-> sections, pages |-> << >>]

\* The pages the results can hold for the k-th URL: one issue, two issues
\* of different types, two issues of one type, an issue that its analyzer's
\* section lists as well, no issue, and an issue without a type.
ReportPages(k) ==
    LET url == AnalyzedUrls[k]
        a == TypedIssue(<< k, 1 >>, "missing_title")
        b == TypedIssue(<< k, 2 >>, "missing_h1")
        c == TypedIssue(<< k, 2 >>, "missing_title")
        d == UntypedIssue(<< k, 1 >>)
    IN  { ReportPage(url, << a >>, << >>),
          ReportPage(url, << a, b >>, << >>),
          ReportPage(url, << a, c >>, << >>),
          ReportPage(url, << a >>, MapPut(<< >>, "content", << a >>)),
          ReportPage(url, << >>, << >>),
          ReportPage(url, << d >>, << >>) }

\* The analysis results of a crawl: {'pages': [...]}.
MultiPageResults(pages) ==
    [keys |-> {"pages"}, url |-> NoneUrl, issues |-> << >>, sections |-> << >>,
     pages |-> pages]

\* The lists of n pages, the k-th for the k-th URL.
RECURSIVE PageLists(_)
PageLists(n) ==
    IF n = 0 THEN { << >> }
    ELSE { Append(pages, page) : pages \in PageLists(n - 1), page \in ReportPages(n) }

\* What generate_action_plan can be given: the results of a crawl of up to
\* MaxReportPagesBound pages, or the analysis of a single page.
AnalysisResults ==
    { MultiPageResults(pages) :
        pages \in UNION { PageLists(n) : n \in 0..MaxReportPagesBound } }
    \cup ReportPages(1)

\* The pages of the analysis results.
PagesOf(analysis) ==
    IF "pages" \in analysis.keys THEN analysis.pages ELSE << analysis >>

\* _extract_page_issues lines 133-139: issue['source'] = section on the
\* dicts of the sections; a dict in several lists keeps the last value.
source_of(page, issue) ==
    LET holding == {i \in DOMAIN ReportSections :
                       /\ ReportSections[i] \in DOMAIN page.sections
                       /\ \E e \in Range(page.sections[ReportSections[i]]) :
                             e.id = issue.id}
    IN  IF holding = {} THEN issue.source
        ELSE ReportSections[CHOOSE i \in holding : \A j \in holding : j <= i]

\* An issue dict of a page after _extract_page_issues, and after line 111
\* when the page is one of 'pages'.
extracted_issue(page, issue, in_pages) ==
    [issue EXCEPT
        !.keys = @ \cup (IF source_of(page, issue) # NoneVal THEN {"source"} ELSE {})
                   \cup (IF in_pages THEN {"page_url"} ELSE {}),
        !.source = source_of(page, issue),
        !.page_url = IF in_pages THEN page.url ELSE @]

\* The issues of the sections of a page from position i on, in the order of
\* ReportSections.
RECURSIVE SectionIssues(_, _)
SectionIssues(page, i) ==
    IF i > Len(ReportSections) THEN << >>
    ELSE (IF ReportSections[i] \in DOMAIN page.sections
          THEN page.sections[ReportSections[i]]
          ELSE << >>)
         \o SectionIssues(page, i + 1)

\* _extract_page_issues (lines 122-141), with the dicts as they are once
\* the caller is done with them.
extract_page_issues(page_data, in_pages) ==
    LET listed == (IF "issues" \in page_data.keys THEN page_data.issues ELSE << >>)
                  \o SectionIssues(page_data, 1)
    IN  [i \in DOMAIN listed |-> extracted_issue(page_data, listed[i], in_pages)]

\* _extract_all_issues lines 105-115: the issues of all pages.
RECURSIVE ExtractPages(_)
ExtractPages(pages) ==
    IF pages = << >> THEN << >>
    ELSE extract_page_issues(Head(pages), TRUE) \o ExtractPages(Tail(pages))

\* _aggregate_similar_issues line 150: the key of the group of an issue.
group_key(issue) == IF "type" \in issue.keys THEN issue.type ELSE "unknown"

\* list(set(urls)): the URLs of the set in the order the set iterates,
\* which listing gives.
list_of_set(urls, listing) == SelectSeq(listing, LAMBDA url : url \in urls)

\* _aggregate_similar_issues lines 155-174: what a group contributes.
aggregated_issue(group, listing) ==
    IF Len(group) = 1
    THEN group[1]
    ELSE [group[1] EXCEPT
             !.keys = @ \cup {"occurrences", "affected_pages", "aggregate_confidence"},
             !.occurrences = Len(group),
             !.affected_pages =
                 list_of_set({group[i].page_url : i \in DOMAIN group} \ {NoneUrl},
                             listing),
             !.aggregate_confidence = << 5 * Len(group), 10 * Len(group) >>]

\* _aggregate_similar_issues (lines 143-176): one entry per key, in the
\* order in which the keys first appear.
aggregate_similar_issues(issues, listing) ==
    LET first == SelectSeq([i \in DOMAIN issues |-> i],
                     LAMBDA i : \A j \in 1..(i - 1) :
                                   group_key(issues[j]) # group_key(issues[i]))
        group(key) == SelectSeq(issues, LAMBDA issue : group_key(issue) = key)
    IN  [n \in DOMAIN first |->
            aggregated_issue(group(group_key(issues[first[n]])), listing)]

\* _extract_all_issues (lines 100-120).
extract_all_issues(analysis, listing) ==
    aggregate_similar_issues(
        IF "pages" \in analysis.keys
        THEN ExtractPages(analysis.pages)
        ELSE extract_page_issues(analysis, FALSE),
        listing)

\* A page whose issue dicts are as _extract_all_issues leaves them.
extracted_page(page, in_pages) ==
    [page EXCEPT
        !.issues = [i \in DOMAIN page.issues |->
                       extracted_issue(page, page.issues[i], in_pages)],
        !.sections = [s \in DOMAIN page.sections |->
                         [i \in DOMAIN page.sections[s] |->
                             extracted_issue(page, page.sections[s][i], in_pages)]]]

\* The analysis results once _extract_all_issues has written to their dicts.
extracted_results(analysis) ==
    IF "pages" \in analysis.keys
    THEN [analysis EXCEPT
             !.pages = [i \in DOMAIN analysis.pages |->
                           extracted_page(analysis.pages[i], TRUE)]]
    ELSE extracted_page(analysis, FALSE)

\* The report generator before generate_action_plan(analysis) is called.
ReportConstructed(analysis) ==
    /\ analysis_results = analysis
    /\ all_issues = << >>
    /\ rpc = "start"

\* generate_action_plan line 46: all_issues = self._extract_all_issues(...).
ExtractAllIssues ==
    /\ rpc = "start"
    /\ \E listing \in Orderings({PagesOf(analysis_results)[i].url :
                                    i \in DOMAIN PagesOf(analysis_results)}) :
         all_issues' = extract_all_issues(analysis_results, listing)
    /\ analysis_results' = extracted_results(analysis_results)
    /\ rpc' = "done"
    /\ UNCHANGED << enhanced_issues, action_groups, gpc >>
    /\ UNCHANGED << crawler_vars, cache_vars, analysis_vars, util_vars >>

(***************************************************************************)
(* Properties of the issue aggregator.                                     *)
(***************************************************************************)

\* issue.get('occurrences', 1), as the scores read it (line 196).
occurrences_of(issue) ==
    IF "occurrences" \in issue.keys THEN issue.occurrences ELSE 1

\* issue.get('affected_pages', []).
affected_pages_of(issue) ==
    IF "affected_pages" \in issue.keys THEN issue.affected_pages ELSE << >>

\* All issue dicts of a page.
IssuesOfPage(page) ==
    Range(page.issues)
    \cup UNION {Range(page.sections[s]) : s \in DOMAIN page.sections}

\* The URLs of the pages on which an issue of the type was found.
PagesWithType(type) ==
    {page.url : page \in {p \in Range(PagesOf(analysis_results)) :
                             \E issue \in IssuesOfPage(p) :
                                "type" \in issue.keys /\ issue.type = type}}

\* C8: the issues of one type found on P >= 1 pages are aggregated into
\* exactly one issue, whose occurrence count is P and whose affected pages
\* are P URLs without duplicates.
C8_OccurrencesEqualAffectedPages ==
    rpc = "done" =>
        \A type \in {"missing_title", "missing_h1"} :
            LET P == Cardinality(PagesWithType(type))
                entries == {k \in DOMAIN all_issues :
                               group_key(all_issues[k]) = type}
            IN  P >= 1 =>
                  /\ Cardinality(entries) = 1
                  /\ \A k \in entries :
                        /\ occurrences_of(all_issues[k]) = P
                        /\ Len(affected_pages_of(all_issues[k])) = P
                        /\ Cardinality(Range(affected_pages_of(all_issues[k]))) = P

(***************************************************************************)
(* The action plan: _group_by_effort_impact of report_generator.py.        *)
(*                                                                         *)
(* Scores are in hundredths: 0.6 is 60, 0.4 is 40.                         *)
(***************************************************************************)

\* Bound of the issues that are grouped.
MaxPlanIssuesBound == 2

\* The impact and effort scores of the issues, around the two thresholds.
ScoreValues == {0, 40, 41, 59, 60, 100}

\* The enhanced issue dicts: with or without 'impact_score' and
\* 'effort_score'; id stands for the identity of the dict.
PlanIssues ==
    { [id |-> 0, keys |-> keys,
       impact_score |-> IF "impact_score" \in keys THEN impact ELSE 0,
       effort_score |-> IF "effort_score" \in keys THEN effort ELSE 0] :
         keys \in SUBSET {"impact_score", "effort_score"},
         impact \in ScoreValues, effort \in ScoreValues }

IssueLists ==
    UNION { { [k \in 1..n |-> [issues[k] EXCEPT !.id = k]] :
                issues \in [1..n -> PlanIssues] } :
            n \in 0..MaxPlanIssuesBound }

\* The keys of groups (lines 247-252).
GroupNames == {"quick_wins", "major_projects", "fill_ins", "questionable"}

NoGroups == [group_name \in GroupNames |-> << >>]

\* issue.get('impact_score', 0.5) and issue.get('effort_score', 0.5)
\* (lines 255-256).
impact_of(issue) ==
    IF "impact_score" \in issue.keys THEN issue.impact_score ELSE 50

effort_of(issue) ==
    IF "effort_score" \in issue.keys THEN issue.effort_score ELSE 50

\* The if/elif chain with its first two tests on impact > 0.6.
quadrant_above(impact, effort) ==
    IF impact > 60 /\ effort <= 40 THEN "quick_wins"
    ELSE IF impact > 60 /\ effort > 40 THEN "major_projects"
    ELSE IF impact < 60 /\ effort <= 40 THEN "fill_ins"
    ELSE "questionable"

\* The if/elif chain of lines 258-265.
quadrant(impact, effort) ==
    IF impact >= 60 /\ effort <= 40 THEN "quick_wins"
    ELSE IF impact >= 60 /\ effort > 40 THEN "major_projects"
    ELSE IF impact < 60 /\ effort <= 40 THEN "fill_ins"
    ELSE "questionable"

\* The sort keys of lines 269-280: x.get('impact_score', 0), and
\* x.get('effort_score', 1) with max(0.1, .) under the ratio.
sort_impact(issue) ==
    IF "impact_score" \in issue.keys THEN issue.impact_score ELSE 0

sort_effort(issue) ==
    LET effort == IF "effort_score" \in issue.keys THEN issue.effort_score ELSE 100
    IN  IF effort < 10 THEN 10 ELSE effort

\* Whether the sort key of a is greater than that of b in the group: the
\* impact for quick_wins, the ratio of impact to effort for major_projects,
\* and x.get('priority_score', 0) for the other two, which is 0 for every
\* issue since generate_action_plan sets no 'priority_score'.
higher(a, b, group_name) ==
    CASE group_name = "quick_wins" -> sort_impact(a) > sort_impact(b)
      [] group_name = "major_projects" ->
            sort_impact(a) * sort_effort(b) > sort_impact(b) * sort_effort(a)
      [] OTHER -> FALSE

\* list.sort(key=..., reverse=True): descending and stable.
RECURSIVE insert_sorted(_, _, _)
insert_sorted(sorted, issue, group_name) ==
    IF sorted = << >> THEN << issue >>
    ELSE IF higher(issue, Head(sorted), group_name)
         THEN << issue >> \o sorted
         ELSE << Head(sorted) >> \o insert_sorted(Tail(sorted), issue, group_name)

RECURSIVE sort_group(_, _)
sort_group(issues, group_name) ==
    IF issues = << >> THEN << >>
    ELSE insert_sorted(sort_group(SubSeq(issues, 1, Len(issues) - 1), group_name),
                       issues[Len(issues)], group_name)

\* _group_by_effort_impact (lines 244-282).
group_by_effort_impact(issues) ==
    [group_name \in GroupNames |->
        sort_group(SelectSeq(issues,
                      LAMBDA issue :
                          quadrant(impact_of(issue), effort_of(issue)) = group_name),
                   group_name)]

\* generate_action_plan before line 73, with the enhanced issues it has
\* built.
PlanConstructed(issues) ==
    /\ enhanced_issues = issues
    /\ action_groups = NoGroups
    /\ gpc = "start"

\* generate_action_plan line 73:
\* action_groups = self._group_by_effort_impact(enhanced_issues).
GroupByEffortImpact ==
    /\ gpc = "start"
    /\ action_groups' = group_by_effort_impact(enhanced_issues)
    /\ gpc' = "done"
    /\ UNCHANGED << analysis_results, all_issues, rpc, enhanced_issues >>
    /\ UNCHANGED << crawler_vars, cache_vars, analysis_vars, util_vars >>

(***************************************************************************)
(* Properties of the action plan.                                          *)
(***************************************************************************)

\* How often the issue is in the list of the group.
TimesIn(issue, group_name) ==
    Cardinality({m \in DOMAIN action_groups[group_name] :
                    action_groups[group_name][m] = issue})

\* C19: after the grouping every issue is in exactly one of the four
\* groups, once, and the group is the one its impact and effort scores give
\* by the thresholds 0.6 and 0.4.
C19_ExactlyOneQuadrant ==
    gpc = "done" =>
        \A k \in DOMAIN enhanced_issues :
            LET issue == enhanced_issues[k]
                impact == impact_of(issue)
                effort == effort_of(issue)
            IN  /\ TimesIn(issue, "quick_wins") + TimesIn(issue, "major_projects")
                     + TimesIn(issue, "fill_ins") + TimesIn(issue, "questionable") = 1
                /\ TimesIn(issue, "quick_wins") = 1
                     <=> (impact >= 60 /\ effort <= 40)
                /\ TimesIn(issue, "major_projects") = 1
                     <=> (impact >= 60 /\ effort > 40)
                /\ TimesIn(issue, "fill_ins") = 1
                     <=> (impact < 60 /\ effort <= 40)
                /\ TimesIn(issue, "questionable") = 1
                     <=> (impact < 60 /\ effort > 40)

\* C19 witness: the grouping has placed an issue with both scores on the
\* thresholds among the quick wins and an issue without scores among the
\* questionable ones.
C19_Witness ==
    /\ gpc = "done"
    /\ \E m \in DOMAIN action_groups["quick_wins"] :
          /\ action_groups["quick_wins"][m].keys = {"impact_score", "effort_score"}
          /\ action_groups["quick_wins"][m].impact_score = 60
          /\ action_groups["quick_wins"][m].effort_score = 40
    /\ \E m \in DOMAIN action_groups["questionable"] :
          action_groups["questionable"][m].keys = {}

(***************************************************************************)
(* Crawler.normalize_url applied to a URL and to its own results.          *)
(***************************************************************************)

\* Bound of the characters after the network location of a URL.
MaxTailBound == 3

\* The URLs normalize_url is given: http://h or HTTP://H followed by up to
\* MaxTailBound characters, the first of which ends the network location.
NormalizeInputs ==
    LET Chars == {"/", "b", "B", ";", "?", "#"}
        Tails == UNION {[1..n -> Chars] : n \in 0..MaxTailBound}
    IN  {[scheme |-> sn[1], netloc |-> sn[2], tail |-> t] :
            sn \in {<<"http", "h">>, <<"HTTP", "H">>},
            t \in {x \in Tails : x = EmptyStr \/ x[1] \in {"/", "?", "#"}}}

\* Before the first normalize_url(url) call.
NormalizeConstructed(url) ==
    /\ norm_url = url
    /\ norm_out = <<>>

\* A call self.normalize_url(url), first on the given URL and then on what
\* the call before returned (fetch_page line 144 normalizes the URLs that
\* crawl_site took from links of normalized pages).
NormalizeUrl ==
    /\ Len(norm_out) < 2
    /\ norm_out' = Append(norm_out,
                          normalize_url(IF norm_out = <<>> THEN norm_url
                                        ELSE norm_out[Len(norm_out)]))
    /\ UNCHANGED << norm_url, wrapper, fetcher, manager, scoring >>
    /\ UNCHANGED << crawler_vars, cache_vars, analysis_vars, report_vars >>

\* Two URLs that differ only by their fragment.
DifferByFragment(u, v) ==
    /\ u.scheme = v.scheme /\ u.netloc = v.netloc
    /\ [urlparse(u) EXCEPT !.fragment = EmptyStr]
         = [urlparse(v) EXCEPT !.fragment = EmptyStr]

\* Two URLs that differ only by a trailing slash of the path.
DifferByTrailingSlash(u, v) ==
    /\ u.scheme = v.scheme /\ u.netloc = v.netloc
    /\ urlparse(v) = [urlparse(u) EXCEPT !.path = @ \o <<"/">>]

\* C23: normalize_url is idempotent, and URLs that differ only by their
\* fragment or by a trailing slash of the path have one normalized form.
C23_NormalizeIdempotent ==
    /\ Len(norm_out) = 2 => norm_out[2] = norm_out[1]
    /\ Len(norm_out) >= 1 =>
          \A v \in NormalizeInputs :
              (\/ DifferByFragment(norm_url, v)
               \/ DifferByTrailingSlash(norm_url, v)
               \/ DifferByTrailingSlash(v, norm_url))
              => normalize_url(v) = norm_out[1]

(***************************************************************************)
(* handle_analysis_error of src/src/utils/error_handler.py: the wrapper    *)
(* around a function that returns a dict or raises.                        *)
(***************************************************************************)

\* The exception classes that reach the first two except clauses.
URLFetchErrors == {"RateLimitError", "NetworkError", "TimeoutError"}
ContentAnalysisErrors == {"InvalidHTMLError", "EncodingError", "MissingContentError"}

\* What the wrapped function raises: an exception of the module, whose
\* e.error carries an error code, or any other Exception.
RaisedExceptions ==
    [type : URLFetchErrors \cup ContentAnalysisErrors \cup {"ConfigurationError"},
     error_code : {"TEST_ERROR"}]
    \cup {[type |-> "ValueError", error_code |-> NoneVal]}

\* No exception.
NoException == [type |-> NoneVal, error_code |-> NoneVal]

\* The dict func returns from its first or second call; call is 0 in the
\* dicts that the wrapper builds itself.
func_result(n) ==
    [error |-> FALSE, code |-> NoneVal, recovery_attempted |-> FALSE, call |-> n]

\* A call of the wrapper with the keyword arguments of kwargs; headers is
\* the value of kwargs['headers'], a dict or None.
wrapper_call(kwargs, headers) ==
    [kwargs |-> kwargs, headers |-> headers, pc |-> "called", invoked |-> 0,
     raised |-> NoException, ret |-> func_result(0)]

WrapperCalls ==
    {wrapper_call(k, h) : k \in SUBSET {"headers", "parser", "encoding"},
                          h \in {"dict", NoneVal}}

\* The recovery of lines 208-220 and 233-246: whether func is called again.
\* kwargs['headers']['User-Agent'] = ... raises TypeError on None, which
\* the inner except swallows before recovery_attempted is set.
recovery_attempted(e, call) ==
    \/ e.type = "RateLimitError"
    \/ e.type = "NetworkError" /\ "headers" \in call.kwargs /\ call.headers = "dict"
    \/ e.type = "InvalidHTMLError" /\ "parser" \in call.kwargs
    \/ e.type = "EncodingError" /\ "encoding" \in call.kwargs

\* The dict the wrapper returns for an exception (lines 224-230, 250-256 and
\* 266-272).
error_dict(e, attempted) ==
    IF e.type \in URLFetchErrors \cup ContentAnalysisErrors
    THEN [error |-> TRUE, code |-> e.error_code, recovery_attempted |-> attempted,
          call |-> 0]
    ELSE [error |-> TRUE, code |-> "UNEXPECTED_ERROR", recovery_attempted |-> FALSE,
          call |-> 0]

\* Before the wrapper is called.
WrapperConstructed(call) == wrapper = call

\* wrapper lines 203-272 up to a second call of func: func returns, or
\* raises and the except clause that matches returns the error dict or
\* prepares the retry.
WrapperCall ==
    /\ wrapper.pc = "called"
    /\ \/ wrapper' = [wrapper EXCEPT !.pc = "returned", !.invoked = 1,
                                      !.ret = func_result(1)]
       \/ \E e \in RaisedExceptions :
            wrapper' = IF recovery_attempted(e, wrapper)
                       THEN [wrapper EXCEPT !.pc = "retry", !.invoked = 1,
                                            !.raised = e]
                       ELSE [wrapper EXCEPT !.pc = "returned", !.invoked = 1,
                                            !.raised = e,
                                            !.ret = error_dict(e, FALSE)]
    /\ UNCHANGED << norm_url, norm_out, fetcher, manager, scoring >>
    /\ UNCHANGED << crawler_vars, cache_vars, analysis_vars, report_vars >>

\* The second call of func (lines 213, 219, 239, 245): its result is
\* returned; when it raises, the inner except passes and the error dict of
\* the first exception is returned.
WrapperRetry ==
    /\ wrapper.pc = "retry"
    /\ \E retry_raises \in BOOLEAN :
         wrapper' = [wrapper EXCEPT !.pc = "returned", !.invoked = 2,
                        !.ret = IF retry_raises
                                THEN error_dict(wrapper.raised, TRUE)
                                ELSE func_result(2)]
    /\ UNCHANGED << norm_url, norm_out, fetcher, manager, scoring >>
    /\ UNCHANGED << crawler_vars, cache_vars, analysis_vars, report_vars >>

\* The cases in which the wrapper is said to call func again.
RetryCase(e, call) ==
    \/ e.type = "RateLimitError"
    \/ e.type = "NetworkError" /\ "headers" \in call.kwargs
    \/ e.type = "InvalidHTMLError" /\ "parser" \in call.kwargs
    \/ e.type = "EncodingError" /\ "encoding" \in call.kwargs

\* C27: the wrapper returns on every path; in the four recovery cases func
\* is called exactly twice and the result of a successful second call is
\* returned; after any other exception func was called once and the error
\* dict has error = True, the code of the error (UNEXPECTED_ERROR for an
\* exception without one) and recovery_attempted = False.
C27_WrapperRecovers ==
    (wrapper.pc = "returned" /\ wrapper.raised # NoException) =>
        IF RetryCase(wrapper.raised, wrapper)
        THEN /\ wrapper.invoked = 2
             /\ wrapper.ret = func_result(2) \/ wrapper.ret.error
        ELSE /\ wrapper.invoked = 1
             /\ wrapper.ret.error
             /\ wrapper.ret.code = (IF wrapper.raised.error_code # NoneVal
                                    THEN wrapper.raised.error_code
                                    ELSE "UNEXPECTED_ERROR")
             /\ ~wrapper.ret.recovery_attempted

(***************************************************************************)
(* AsyncRequestManager.fetch of src/src/utils/async_base.py, called for    *)
(* two URLs at once as fetch_many does.                                    *)
(***************************************************************************)

\* Bound of context['max_retries'].
MaxRetriesBound == 2

\* A fetch(url) call that has not entered 'async with self.semaphore'.
NewFetch == [pc |-> "waiting", attempt |-> 0, gets |-> 0, outcome |-> NoneVal]

\* The state after AsyncRequestManager(context) (lines 33-37), inside or
\* outside 'async with' (lines 39-45), with two fetch() calls created.
FetcherConstructed(max_retries, concurrent_limit, has_session) ==
    fetcher = [max_retries |-> max_retries, session |-> has_session,
               semaphore |-> concurrent_limit, fetches |-> <<NewFetch, NewFetch>>]

\* fetch line 64: the call enters 'async with self.semaphore'.
FetchAcquire(i) ==
    /\ fetcher.fetches[i].pc = "waiting"
    /\ fetcher.semaphore > 0
    /\ fetcher' = [fetcher EXCEPT !.semaphore = @ - 1,
                                  !.fetches[i].pc = "running"]
    /\ UNCHANGED << norm_url, norm_out, wrapper, manager, scoring >>
    /\ UNCHANGED << crawler_vars, cache_vars, analysis_vars, report_vars >>

\* The fetch() call that ended: it left the semaphore.
fetch_ended(i, pc, gets, outcome) ==
    [fetcher EXCEPT !.semaphore = @ + 1,
                    !.fetches[i] = [pc |-> pc, attempt |-> @.attempt,
                                    gets |-> gets, outcome |-> outcome]]

\* fetch lines 65-107: one round of 'for attempt in range(max_retries)'.
\* Without a session NetworkError is raised before any request.  A 429
\* raises RateLimitError, which no except clause of the loop catches; a 2xx
\* returns the text, whose decoding may raise; aiohttp.ClientError (from the
\* request or from raise_for_status) and asyncio.TimeoutError end the call
\* on the last attempt and lead to the next round before.
FetchAttempt(i) ==
    LET f == fetcher.fetches[i]
        last == f.attempt = fetcher.max_retries - 1
    IN  /\ f.pc = "running"
        /\ f.attempt < fetcher.max_retries
        /\ IF ~fetcher.session
           THEN fetcher' = fetch_ended(i, "raised", f.gets, "NetworkError")
           ELSE \E response \in {"200", "undecodable", "429", "ClientError",
                                 "TimeoutError"} :
                  fetcher' =
                    CASE response = "200" ->
                           fetch_ended(i, "returned", f.gets + 1, "text")
                      [] response = "undecodable" ->
                           fetch_ended(i, "raised", f.gets + 1, "UnicodeDecodeError")
                      [] response = "429" ->
                           fetch_ended(i, "raised", f.gets + 1, "RateLimitError")
                      [] response = "ClientError" /\ last ->
                           fetch_ended(i, "raised", f.gets + 1, "NetworkError")
                      [] response = "TimeoutError" /\ last ->
                           fetch_ended(i, "raised", f.gets + 1, "TimeoutError")
                      [] OTHER ->
                           [fetcher EXCEPT !.fetches[i].attempt = @ + 1,
                                           !.fetches[i].gets = @ + 1]
        /\ UNCHANGED << norm_url, norm_out, wrapper, manager, scoring >>
        /\ UNCHANGED << crawler_vars, cache_vars, analysis_vars, report_vars >>

\* fetch after line 107: the for loop ended without return or raise, and the
\* coroutine returns None.
FetchFallsThrough(i) ==
    /\ fetcher.fetches[i].pc = "running"
    /\ fetcher.fetches[i].attempt >= fetcher.max_retries
    /\ fetcher' = fetch_ended(i, "returned", fetcher.fetches[i].gets, NoneVal)
    /\ UNCHANGED << norm_url, norm_out, wrapper, manager, scoring >>
    /\ UNCHANGED << crawler_vars, cache_vars, analysis_vars, report_vars >>

\* C29: a fetch() call issues at most max_retries GET requests, and it ends
\* by returning the text of a response or by raising RateLimitError,
\* NetworkError or TimeoutError.
C29_FetchReturnsTextOrRaises ==
    \A i \in DOMAIN fetcher.fetches :
        LET f == fetcher.fetches[i]
        IN  /\ f.gets <= fetcher.max_retries
            /\ f.pc = "returned" => f.outcome = "text"
            /\ f.pc = "raised"
                 => f.outcome \in {"RateLimitError", "NetworkError", "TimeoutError"}

(***************************************************************************)
(* The CacheManager singleton of src/tfq0seo/utils/cache_manager.py,       *)
(* within the time-to-live of its entries.                                 *)
(***************************************************************************)

\* Bound of the calls made on the singleton.
MaxManagerCallsBound == 4

\* The key_data and the values of the calls.
ManagerKeys == {"key_0", "key_1"}
ManagerValues == {"value_0", "value_1"}

\* The attributes __init__ assigns (lines 46-50); enabled is an attribute
\* that only configure assigns.
initialized(m) ==
    [m EXCEPT !.memory_cache = [k \in ManagerKeys |-> NoneVal],
              !.config = NoneVal, !.cache_dir = NoneVal]

\* The state after the module's cache_manager = CacheManager() (line 202)
\* and configure(config) (lines 52-73): one instance, one reference, no
\* entry; expected is what the callers stored, got what the last get
\* returned, last the last call.
ManagerConstructed(enabled) ==
    manager = [instances |-> 1, references |-> 1, config |-> "config",
               enabled |-> enabled, cache_dir |-> "directory",
               memory_cache |-> [k \in ManagerKeys |-> NoneVal],
               files |-> [k \in ManagerKeys |-> NoneVal],
               expected |-> [k \in ManagerKeys |-> NoneVal],
               got |-> [key |-> NoneVal, data |-> NoneVal], calls |-> 0,
               last |-> "configure"]

\* CacheManager() (lines 40-50): __new__ returns cls._instance, which is
\* set, and Python then calls __init__ on it.
ManagerNew ==
    /\ manager.calls < MaxManagerCallsBound
    /\ manager' = [initialized(manager) EXCEPT !.references = @ + 1,
                                               !.calls = @ + 1,
                                               !.last = "CacheManager"]
    /\ UNCHANGED << norm_url, norm_out, wrapper, fetcher, scoring >>
    /\ UNCHANGED << crawler_vars, cache_vars, analysis_vars, report_vars >>

\* set (lines 134-166): the memory entry, then the file; without a cache
\* directory _get_cache_path raises, which set logs; open() may fail, which
\* set logs as well.
ManagerSet ==
    /\ manager.calls < MaxManagerCallsBound
    /\ \E key \in ManagerKeys, value \in ManagerValues, written \in BOOLEAN :
         manager' =
           IF ~manager.enabled
           THEN [manager EXCEPT !.calls = @ + 1, !.last = "set"]
           ELSE [manager EXCEPT
                   !.memory_cache[key] = value,
                   !.files[key] = IF manager.cache_dir # NoneVal /\ written
                                  THEN value ELSE @,
                   !.expected[key] = value,
                   !.calls = @ + 1, !.last = "set"]
    /\ UNCHANGED << norm_url, norm_out, wrapper, fetcher, scoring >>
    /\ UNCHANGED << crawler_vars, cache_vars, analysis_vars, report_vars >>

\* get (lines 98-132): the memory entry, else the file, which is put into
\* the memory cache; without a cache directory _get_cache_path raises,
\* which get logs before it returns None.
ManagerGet ==
    /\ manager.calls < MaxManagerCallsBound
    /\ \E key \in ManagerKeys :
         LET in_memory == manager.memory_cache[key] # NoneVal
             in_file == /\ manager.cache_dir # NoneVal
                        /\ manager.files[key] # NoneVal
             data == IF ~manager.enabled THEN NoneVal
                     ELSE IF in_memory THEN manager.memory_cache[key]
                     ELSE IF in_file THEN manager.files[key]
                     ELSE NoneVal
         IN  manager' = [manager EXCEPT
                 !.memory_cache[key] = IF manager.enabled /\ ~in_memory /\ in_file
                                       THEN manager.files[key] ELSE @,
                 !.got = [key |-> key, data |-> data],
                 !.calls = @ + 1, !.last = "get"]
    /\ UNCHANGED << norm_url, norm_out, wrapper, fetcher, scoring >>
    /\ UNCHANGED << crawler_vars, cache_vars, analysis_vars, report_vars >>

\* C30: CacheManager() returns the one instance and changes nothing of it:
\* the configuration and the entries stay, and a get() returns what was
\* stored for its key.
C30_SingletonKeepsState ==
    /\ [](manager.instances = 1)
    /\ [][manager'.references > manager.references =>
            /\ manager'.config = manager.config
            /\ manager'.cache_dir = manager.cache_dir
            /\ manager'.memory_cache = manager.memory_cache]_vars
    /\ [][(/\ manager'.calls > manager.calls
           /\ manager'.last = "get"
           /\ manager.enabled
           /\ manager.expected[manager'.got.key] # NoneVal)
          => manager'.got.data = manager.expected[manager'.got.key]]_vars

(***************************************************************************)
(* The impact score: _calculate_impact_score of report_generator.py and    *)
(* calculate_recommendation_confidence of data_quality.py.                 *)
(*                                                                         *)
(* The floats of the code are exact multiples of small units here: the     *)
(* component scores of the confidence are hundredths, the completeness of  *)
(* the data is in 1/240, the weighted confidence in 1/60000, the rounded   *)
(* confidence in hundredths, and the impact score in 1/50000.              *)
(***************************************************************************)

\* The largest 'occurrences' of an aggregated issue.
MaxOccurrencesBound == 11

\* required_fields and optional_fields of _assess_data_completeness.
required_fields ==
    {"url", "status_code", "title", "meta_description", "content",
     "technical", "performance", "links"}

optional_fields ==
    {"structured_data", "images", "scripts", "stylesheets", "headers", "cookies"}

\* The page data given to calculate_recommendation_confidence: the fields
\* that are present and not None, whether 'errors' or 'parsing_errors' is
\* set, and what the quality checks look at.  Every section is a dict.
NewPageData(fields, has_errors, word_count, technical, performance, links) ==
    [fields |-> fields, has_errors |-> has_errors, word_count |-> word_count,
     technical |-> technical, performance |-> performance, links |-> links]

EmptyPageData == NewPageData({}, FALSE, 0, {}, {}, {})

PageDatas ==
    { EmptyPageData,
      NewPageData(required_fields \cup optional_fields, FALSE, 300,
                  {"https", "mobile_friendly"}, {"load_time"}, {"total_links"}),
      NewPageData(required_fields, TRUE, 300, {"https"}, {}, {"internal_links"}),
      NewPageData({"url", "status_code", "content", "performance"}, TRUE, 0,
                  {}, {"size"}, {}) }

\* An issue dict: keys holds which of 'occurrences', 'confidence' and
\* 'impact_score' it has, estimated_impact is NoneVal when that key is
\* absent, context holds the keys with a truthy value among current_value
\* and recommended_value (as "values"), implementation_steps and examples.
NewIssue(type, severity, source, estimated_impact, occurrences, context) ==
    [keys |-> IF occurrences = 0 THEN {} ELSE {"occurrences"},
     type |-> type, severity |-> severity, source |-> source,
     estimated_impact |-> estimated_impact, occurrences |-> occurrences,
     context |-> context, confidence |-> [score |-> 0, level |-> "low"],
     impact_score |-> 0]

Issues ==
    { NewIssue(type, severity, source, estimated_impact, occurrences, context) :
        type \in {"missing_title", "thin_content", "unknown"},
        severity \in {"critical", "notice"},
        source \in {"technical", "meta_tags"},
        estimated_impact \in {"high", "medium", "low", "EstimatedImpact.HIGH", NoneVal},
        occurrences \in 0..MaxOccurrencesBound,
        context \in {{}, {"values", "implementation_steps", "examples"}} }

\* _assess_field_quality (lines 163-198), times 8: four indicators, their
\* mean.
assess_field_quality(page_data) ==
    LET content == IF page_data.word_count > 0 THEN 2 ELSE 0
        technical == IF {"https", "mobile_friendly"} \subseteq page_data.technical
                     THEN 2 ELSE 1
        performance ==
            IF page_data.performance \cap {"load_time", "size", "requests"} # {}
            THEN 2 ELSE 0
        links ==
            IF page_data.links
                 \cap {"internal_links", "external_links", "total_links"} # {}
            THEN 2 ELSE 0
    IN  content + technical + performance + links

\* _assess_data_completeness (lines 117-161), in 1/240:
\* required_score * 0.7 + quality_score * 0.3 + optional_score - error_penalty
\* between 0.0 and 1.0.
assess_data_completeness(page_data) ==
    LET required_present == Cardinality(page_data.fields \cap required_fields)
        optional_present == Cardinality(page_data.fields \cap optional_fields)
        error_penalty == IF page_data.has_errors THEN 48 ELSE 0
        completeness_score ==
            21 * required_present + 9 * assess_field_quality(page_data)
              + 8 * optional_present - error_penalty
    IN  IF completeness_score > 240 THEN 240
        ELSE IF completeness_score < 0 THEN 0
        ELSE completeness_score

\* _assess_issue_clarity (lines 200-232), in hundredths.
assess_issue_clarity(issue) ==
    LET base_clarity ==
            CASE issue.type = "missing_title" -> 100
              [] issue.type = "thin_content" -> 75
              [] OTHER -> CASE issue.severity = "critical" -> 90
                            [] issue.severity = "warning" -> 70
                            [] OTHER -> 50
        adjustments ==
            (IF "values" \in issue.context THEN 10 ELSE 0)
              + (IF "implementation_steps" \in issue.context THEN 5 ELSE 0)
              + (IF "examples" \in issue.context THEN 5 ELSE 0)
    IN  IF base_clarity + adjustments > 100 THEN 100
        ELSE base_clarity + adjustments

\* _check_pattern_frequency (lines 234-262), in hundredths.
check_pattern_frequency(issue_type) ==
    CASE issue_type = "missing_title" -> 95
      [] issue_type = "thin_content" -> 80
      [] OTHER -> 50

\* _get_analyzer_reliability (lines 264-270), in hundredths: the part of the
\* source before its first underscore, looked up with the default 0.75.
get_analyzer_reliability(source) ==
    CASE source = "technical" -> 85
      [] OTHER -> 75

\* round(confidence_score, 2) of a score in 1/60000, in hundredths: the
\* values it can return.  The code adds floats, so a sum that is exactly
\* halfway between two hundredths can come out on either side of it.
round2(confidence_score) ==
    LET below == confidence_score \div 600
        rest == confidence_score % 600
    IN  CASE rest > 300 -> {below + 1}
          [] rest < 300 -> {below}
          [] OTHER -> {below, below + 1}

\* The if/elif chain on confidence_score > 0.8 and > 0.5 (lines 102-107):
\* the levels it can give, a float sum of exactly 0.8 or 0.5 being on
\* either side of the threshold.
confidence_levels(confidence_score) ==
    CASE confidence_score > 48000 -> {"high"}
      [] confidence_score = 48000 -> {"high", "medium"}
      [] confidence_score > 30000 -> {"medium"}
      [] confidence_score = 30000 -> {"medium", "low"}
      [] OTHER -> {"low"}

\* calculate_recommendation_confidence (lines 72-115): the weighted sum of
\* the four factors, and the dicts it can return with the rounded 'score'.
calculate_recommendation_confidence(issue, page_data) ==
    LET confidence_score ==
            100 * assess_data_completeness(page_data)
              + 6 * (30 * assess_issue_clarity(issue)
                     + 20 * check_pattern_frequency(issue.type)
                     + 10 * get_analyzer_reliability(issue.source))
    IN  { [score |-> score, level |-> level] :
            score \in round2(confidence_score),
            level \in confidence_levels(confidence_score) }

\* base_impact.get(issue.get('estimated_impact', 'medium'), 0.5)
\* (lines 181-188), in hundredths.
base_impact(issue) ==
    CASE issue.estimated_impact = "high" -> 90
      [] issue.estimated_impact = "medium" -> 60
      [] issue.estimated_impact = "low" -> 30
      [] issue.estimated_impact = NoneVal -> 60
      [] OTHER -> 50

\* The types of critical_issues get 0.2 (lines 190-193).
critical_boost(issue) ==
    IF issue.type \in {"missing_title", "missing_description", "no_https",
                       "missing_h1"}
    THEN 20 ELSE 0

\* The boost with the three amounts in the opposite order.
occurrence_boost_reversed(occurrences) ==
    IF occurrences > 10 THEN 5
    ELSE IF occurrences > 5 THEN 10
    ELSE IF occurrences > 1 THEN 15
    ELSE 0

\* The if/elif chain on occurrences (lines 195-202), in hundredths.
occurrence_boost(occurrences) ==
    IF occurrences > 10 THEN 15
    ELSE IF occurrences > 5 THEN 10
    ELSE IF occurrences > 1 THEN 5
    ELSE 0

\* 0.8 + 0.2 * issue.get('confidence', {}).get('score', 0.5) (lines 205-206),
\* in 1/500.
confidence_factor(issue) ==
    400 + (IF "confidence" \in issue.keys THEN issue.confidence.score ELSE 50)

\* _calculate_impact_score (lines 178-208), in 1/50000.
calculate_impact_score(issue) ==
    LET score == (base_impact(issue) + critical_boost(issue)
                    + occurrence_boost(occurrences_of(issue)))
                 * confidence_factor(issue)
    IN  IF score > 50000 THEN 50000 ELSE score

\* The pass before its first statement.
ScoringConstructed(issue, page_data) ==
    scoring = [issue |-> issue, page_data |-> page_data, pc |-> "start"]

ScoringIdle ==
    ScoringConstructed(NewIssue("unknown", "notice", "technical", NoneVal, 0, {}),
                       EmptyPageData)

\* issue['confidence'] = calculate_recommendation_confidence(issue,
\* analysis_results) (lines 52-56 of report_generator.py).
SetConfidence ==
    /\ scoring.pc = "start"
    /\ \E confidence \in calculate_recommendation_confidence(scoring.issue,
                                                             scoring.page_data) :
         scoring' = [scoring EXCEPT
             !.issue.keys = @ \cup {"confidence"},
             !.issue.confidence = confidence,
             !.pc = "confidence"]
    /\ UNCHANGED << norm_url, norm_out, wrapper, fetcher, manager >>
    /\ UNCHANGED << crawler_vars, cache_vars, analysis_vars, report_vars >>

\* issue['impact_score'] = self._calculate_impact_score(issue) (line 66).
SetImpactScore ==
    /\ scoring.pc = "confidence"
    /\ scoring' = [scoring EXCEPT
           !.issue.keys = @ \cup {"impact_score"},
           !.issue.impact_score = calculate_impact_score(scoring.issue),
           !.pc = "impact_score"]
    /\ UNCHANGED << norm_url, norm_out, wrapper, fetcher, manager >>
    /\ UNCHANGED << crawler_vars, cache_vars, analysis_vars, report_vars >>

\* C21: the impact score of an issue is between 0 and 1; it does not get
\* smaller when the issue has one more occurrence and is otherwise the same,
\* and the boost grows exactly when the count passes 1, 5 and 10; the factor
\* the score is multiplied by is between 0.8 and 1.0.
C21_ImpactScoreBounded ==
    LET issue == scoring.issue
        with(n) == [issue EXCEPT !.keys = @ \cup {"occurrences"},
                                 !.occurrences = n]
        more(n) == with(n + 1)
    IN  /\ calculate_impact_score(issue) \in 0..50000
        /\ scoring.pc = "impact_score"
             => /\ issue.impact_score \in 0..50000
                /\ issue.impact_score
                     <= calculate_impact_score(more(occurrences_of(issue)))
        /\ \A n \in 1..MaxOccurrencesBound :
             /\ calculate_impact_score(with(n)) <= calculate_impact_score(more(n))
             /\ occurrence_boost(n) < occurrence_boost(n + 1) <=> n \in {1, 5, 10}
             /\ occurrence_boost(n) <= occurrence_boost(n + 1)
        /\ confidence_factor(issue) \in 400..500

\* An issue seen more than ten times whose score got the largest boost and
\* stays below the cap, with a factor strictly between the two ends.
C21_Witness ==
    /\ scoring.pc = "impact_score"
    /\ scoring.issue.occurrences = MaxOccurrencesBound
    /\ scoring.issue.estimated_impact = "low"
    /\ scoring.issue.type = "thin_content"
    /\ confidence_factor(scoring.issue) \in 401..499
    /\ scoring.issue.impact_score = 45 * confidence_factor(scoring.issue)
    /\ scoring.issue.impact_score < 50000

(***************************************************************************)
(* The specifications.                                                     *)
(***************************************************************************)

\* The helpers of the crawler before they are called.
UtilitiesIdle ==
    /\ ScoringIdle
    /\ ManagerConstructed(TRUE)
    /\ FetcherConstructed(1, 1, FALSE)
    /\ NormalizeConstructed(start_url)
    /\ WrapperConstructed(wrapper_call({}, NoneVal))

\* The state after Crawler(config) (lines 28-48) when crawl_site has set up
\* its frontier (lines 214-225).
CrawlerConstructed(pages, depth, concurrent, robots) ==
    /\ max_pages = pages
    /\ max_depth = depth
    /\ max_concurrent = concurrent
    /\ respect_robots = robots
    /\ visited_urls = {}
    /\ failed_urls = {}
    /\ results = <<>>
    /\ robots_cache = <<>>
    /\ to_visit = <<start_url>>
    /\ depth_map = MapPut(<<>>, start_url, 0)
    /\ batch = <<>>
    /\ tasks = <<>>
    /\ semaphore = max_concurrent
    /\ cpc = "loop"
    /\ idx = 0
    /\ page_gets = [n \in {normalize_url(u) : u \in PageUrls} |-> 0]
    /\ session = "open"
    /\ robots_gets = [r \in {robots_url_of(u) : u \in PageUrls} |-> 0]

Init ==
    /\ \E pages \in 1..MaxPagesBound, depth \in 0..MaxDepthBound,
          concurrent \in 0..MaxConcurrentBound, robots \in BOOLEAN :
            CrawlerConstructed(pages, depth, concurrent, robots)
    /\ CacheConstructed(<<>>)
    /\ AnalyzerConstructed
    /\ ReportConstructed(MultiPageResults(<< >>))
    /\ PlanConstructed(<< >>)
    /\ UtilitiesIdle

Next ==
    \/ Dispatch
    \/ Return
    \/ \E i \in 1..MaxConcurrentBound : FetchStart(i)
    \/ \E i \in 1..MaxConcurrentBound : FetchOnClosedSession(i)
    \/ CloseSession
    \/ \E i \in 1..MaxConcurrentBound : RobotsResponse(i)
    \/ \E i \in 1..MaxConcurrentBound : GetResponse(i)
    \/ \E i \in 1..MaxConcurrentBound : GetFails(i)
    \/ GatherDone
    \/ MergeResult

Spec == Init /\ [][Next]_vars

\* The crawl on an event loop that keeps running the coroutines that can
\* run, with every request answered or timed out.
FairSpec == Init /\ [][Next]_vars /\ WF_vars(Next)

\* The cache, used by threads that the scheduler keeps running.
CacheInit ==
    /\ \E dir \in InitialDirs : CacheConstructed(dir)
    /\ CrawlerConstructed(1, 0, 1, FALSE)
    /\ AnalyzerConstructed
    /\ ReportConstructed(MultiPageResults(<< >>))
    /\ PlanConstructed(<< >>)
    /\ UtilitiesIdle

CacheNext ==
    \/ \E t \in Threads : Configure(t)
    \/ \E t \in Threads : SetCall(t)
    \/ \E t \in Threads : GetCall(t)
    \/ \E t \in Threads : AddToMemoryCache(t)
    \/ \E t \in Threads : CleanupExpiredMemory(t)
    \/ \E t \in Threads : CleanupExpiredFiles(t)
    \/ \E t \in Threads : SetFileWrite(t)
    \/ \E t \in Threads : GetMemory(t)
    \/ \E t \in Threads : GetFile(t)
    \/ \E t \in Threads : IncrRead(t)
    \/ \E t \in Threads : IncrWrite(t)
    \/ Tick

CacheSpec ==
    /\ CacheInit
    /\ [][CacheNext]_vars
    /\ \A t \in Threads : WF_vars(ThreadStep(t))

\* The orchestrator, fed by a crawl of up to MaxAnalyzedPagesBound pages.
AnalysisInit ==
    /\ CrawlerConstructed(MaxAnalyzedPagesBound, 0, 1, FALSE)
    /\ AnalyzerConstructed
    /\ CacheConstructed(<<>>)
    /\ ReportConstructed(MultiPageResults(<< >>))
    /\ PlanConstructed(<< >>)
    /\ UtilitiesIdle

AnalysisNext ==
    \/ CrawlerAppends
    \/ CrawlerDone
    \/ AnalyzeNext
    \/ StreamEnds
    \/ GenerateSiteReport

AnalysisSpec == AnalysisInit /\ [][AnalysisNext]_vars

\* The issue aggregator, applied to any of the analysis results.
ReportInit ==
    /\ \E analysis \in AnalysisResults : ReportConstructed(analysis)
    /\ PlanConstructed(<< >>)
    /\ UtilitiesIdle
    /\ CrawlerConstructed(1, 0, 1, FALSE)
    /\ CacheConstructed(<<>>)
    /\ AnalyzerConstructed

ReportNext == ExtractAllIssues

ReportSpec == ReportInit /\ [][ReportNext]_vars

\* _group_by_effort_impact applied to the issue lists.
PlanInit ==
    /\ \E issues \in IssueLists : PlanConstructed(issues)
    /\ UtilitiesIdle
    /\ ReportConstructed(MultiPageResults(<< >>))
    /\ CrawlerConstructed(1, 0, 1, FALSE)
    /\ CacheConstructed(<<>>)
    /\ AnalyzerConstructed

PlanNext == GroupByEffortImpact

PlanSpec == PlanInit /\ [][PlanNext]_vars

\* normalize_url applied to the URLs of NormalizeInputs.
NormalizeInit ==
    /\ \E url \in NormalizeInputs : NormalizeConstructed(url)
    /\ WrapperConstructed(wrapper_call({}, NoneVal))
    /\ FetcherConstructed(1, 1, FALSE)
    /\ ManagerConstructed(TRUE)
    /\ ScoringIdle
    /\ CrawlerConstructed(1, 0, 1, FALSE)
    /\ CacheConstructed(<<>>)
    /\ AnalyzerConstructed
    /\ ReportConstructed(MultiPageResults(<< >>))
    /\ PlanConstructed(<< >>)

NormalizeSpec == NormalizeInit /\ [][NormalizeUrl]_vars

\* A wrapped function called with any of the keyword arguments.
WrapperInit ==
    /\ \E call \in WrapperCalls : WrapperConstructed(call)
    /\ ManagerConstructed(TRUE)
    /\ FetcherConstructed(1, 1, FALSE)
    /\ NormalizeConstructed(start_url)
    /\ ScoringIdle
    /\ CrawlerConstructed(1, 0, 1, FALSE)
    /\ CacheConstructed(<<>>)
    /\ AnalyzerConstructed
    /\ ReportConstructed(MultiPageResults(<< >>))
    /\ PlanConstructed(<< >>)

WrapperSpec == WrapperInit /\ [][WrapperCall \/ WrapperRetry]_vars

\* Two fetch() calls of a request manager with any max_retries.
FetcherInit ==
    /\ \E max_retries \in 0..MaxRetriesBound, concurrent_limit \in 1..2,
          has_session \in BOOLEAN :
            FetcherConstructed(max_retries, concurrent_limit, has_session)
    /\ ManagerConstructed(TRUE)
    /\ WrapperConstructed(wrapper_call({}, NoneVal))
    /\ NormalizeConstructed(start_url)
    /\ ScoringIdle
    /\ CrawlerConstructed(1, 0, 1, FALSE)
    /\ CacheConstructed(<<>>)
    /\ AnalyzerConstructed
    /\ ReportConstructed(MultiPageResults(<< >>))
    /\ PlanConstructed(<< >>)

FetcherNext ==
    \E i \in 1..2 : FetchAcquire(i) \/ FetchAttempt(i) \/ FetchFallsThrough(i)

FetcherSpec == FetcherInit /\ [][FetcherNext]_vars

\* The singleton, configured with caching enabled or disabled, used through
\* references that CacheManager() hands out.
ManagerInit ==
    /\ \E enabled \in BOOLEAN : ManagerConstructed(enabled)
    /\ FetcherConstructed(1, 1, FALSE)
    /\ WrapperConstructed(wrapper_call({}, NoneVal))
    /\ NormalizeConstructed(start_url)
    /\ ScoringIdle
    /\ CrawlerConstructed(1, 0, 1, FALSE)
    /\ CacheConstructed(<<>>)
    /\ AnalyzerConstructed
    /\ ReportConstructed(MultiPageResults(<< >>))
    /\ PlanConstructed(<< >>)

ManagerNext == ManagerNew \/ ManagerSet \/ ManagerGet

ManagerSpec == ManagerInit /\ [][ManagerNext]_vars

\* One pass of the loop of generate_action_plan for any of the issues and
\* page data.
ScoringInit ==
    /\ \E issue \in Issues, page_data \in PageDatas :
         ScoringConstructed(issue, page_data)
    /\ ManagerConstructed(TRUE)
    /\ FetcherConstructed(1, 1, FALSE)
    /\ WrapperConstructed(wrapper_call({}, NoneVal))
    /\ NormalizeConstructed(start_url)
    /\ CrawlerConstructed(1, 0, 1, FALSE)
    /\ CacheConstructed(<<>>)
    /\ AnalyzerConstructed
    /\ ReportConstructed(MultiPageResults(<< >>))
    /\ PlanConstructed(<< >>)

ScoringNext == SetConfidence \/ SetImpactScore

ScoringSpec == ScoringInit /\ [][ScoringNext]_vars

=============================================================================
